---- MODULE Spec2Model ----
(***************************************************************************)
(* A model of uv's installed-package index (uv-installer,                  *)
(* installed_packages.rs): the slot array with its by-name and by-URL      *)
(* indices, removal by tombstoning, and the worklist traversal of          *)
(* `satisfies`.                                                            *)
(*                                                                         *)
(* Conventions.  Option<T> is a sequence of length 0 (None) or 1 (Some).   *)
(* Slot indices are 0-based as in the code; slot i is distributions[i+1].  *)
(* A hash map is a function whose DOMAIN is its key set.                   *)
(***************************************************************************)
EXTENDS Integers, Sequences, FiniteSets, TLC

(***************************************************************************)
(* Bounds of the model.                                                    *)
(***************************************************************************)
\* The largest number of distributions an environment holds.
MaxDists == 4
\* The largest number of root requirements of one satisfies call.
MaxRoots == 2
\* The largest number of constraints of one satisfies call.
MaxConstraints == 2
\* The largest number of remove_packages calls in one behaviour.
MaxRemoves == 1

(***************************************************************************)
(* Values.                                                                 *)
(***************************************************************************)
None == <<>>
Some(x) == <<x>>

PackageNames == {"a", "b", "c", "d"}
Urls == {"u1"}

\* A marker environment: the facts markers are evaluated against.
MarkerEnvs == {[python_full_version |-> 8], [python_full_version |-> 9]}

\* uv_pep440 VersionSpecifiers::contains, for the specifiers the model uses;
\* the empty specifier set admits every version.
Contains(specifier, version) ==
    CASE specifier = "" -> TRUE
      [] specifier = "==1" -> version = 1
      [] specifier = "==2" -> version = 2
      [] specifier = ">=9" -> version >= 9
      [] OTHER -> FALSE

\* Marker evaluation: a marker tree over the environment and the active extras.
EvaluateMarkers(marker, markers, extras) ==
    CASE marker = "" -> TRUE
      [] marker = "python_full_version >= '9'" -> markers.python_full_version >= 9
      [] marker = "extra == 'x'" -> "x" \in extras
      [] OTHER -> FALSE

\* A declared dependency (a uv_pep508 requirement of a distribution's metadata).
Dep(name, extras, version_or_url, marker) ==
    [name |-> name, extras |-> extras, version_or_url |-> version_or_url,
     marker |-> marker]

NoVersion == <<"None">>
VersionSpecifier(s) == <<"VersionSpecifier", s>>
DepUrl(u) == <<"Url", u>>

\* An installed distribution, as the prober returns it.
Dist(path, name, version, kind, url, cache, readable, requires_python, requires_dist) ==
    [path |-> path, name |-> name, version |-> version, kind |-> kind, url |-> url,
     cache |-> cache, readable |-> readable, requires_python |-> requires_python,
     requires_dist |-> requires_dist]

(***************************************************************************)
(* The distributions an environment is drawn from.  A path is              *)
(* <<search-path directory, file name>>; file names order as numbers.      *)
(***************************************************************************)
DistA1 == Dist(<<1, 1>>, "a", 1, "Registry", "", "fresh", TRUE, None,
               <<Dep("b", {}, NoVersion, ""), Dep("c", {}, NoVersion, "")>>)
DistB1 == Dist(<<1, 2>>, "b", 1, "Registry", "", "fresh", TRUE, None,
               <<Dep("d", {}, NoVersion, "")>>)
DistC1 == Dist(<<1, 3>>, "c", 1, "Registry", "", "fresh", TRUE, Some(">=9"),
               <<Dep("d", {}, NoVersion, ""),
                 Dep("a", {}, NoVersion, "extra == 'x'"),
                 Dep("d", {}, VersionSpecifier("==2"), "python_full_version >= '9'")>>)
DistD1 == Dist(<<1, 4>>, "d", 1, "Registry", "", "fresh", TRUE, None, <<>>)
DistBU == Dist(<<2, 2>>, "b", 2, "Url", "u1", "fresh", TRUE, None,
               <<Dep("a", {}, NoVersion, ""),
                 Dep("b", {}, NoVersion, ""),
                 Dep("d", {}, VersionSpecifier("==1"), "")>>)
DistCU == Dist(<<2, 3>>, "c", 2, "Url", "u1", "error", TRUE, None, <<>>)
DistD2 == Dist(<<2, 4>>, "d", 2, "Registry", "", "fresh", FALSE, None, <<>>)

DistB3 == Dist(<<2, 1>>, "b", 3, "Registry", "", "fresh", TRUE, None,
               <<Dep("d", {}, DepUrl("u1"), ""),
                 Dep("c", {}, VersionSpecifier("==2"), "python_full_version >= '9'")>>)

Dists == {DistA1, DistB1, DistC1, DistD1, DistBU, DistCU, DistD2}


(***************************************************************************)
(* The file system an interpreter's search path is read from.  A directory *)
(* entry carries what the scan reads of it: its file type, its extension,  *)
(* whether its name starts with '~', and the prober's answer for it.       *)
(***************************************************************************)
Entry(path, is_dir, extension, tilde, probe) ==
    [path |-> path, is_dir |-> is_dir, extension |-> extension, tilde |-> tilde,
     probe |-> probe, listed |-> TRUE]

ProbeOk(dist) == <<"Ok", dist>>
ProbeErr == <<"Err", None>>

\* The entry of a recognized distribution: its .dist-info directory.
DistEntry(d) == Entry(d.path, TRUE, "dist-info", FALSE, ProbeOk(Some(d)))

\* A package's own directory: a candidate the prober does not recognize.
EntryPlainDir == Entry(<<1, 5>>, TRUE, "", FALSE, ProbeOk(None))
\* A leftover of an interrupted uninstall: ~-prefixed, and the probe fails.
EntryDangling == Entry(<<1, 6>>, TRUE, "dist-info", TRUE, ProbeErr)
\* A plain file: not a candidate.
EntryFile == Entry(<<2, 5>>, FALSE, "py", FALSE, ProbeErr)
\* A broken .dist-info directory: the probe fails.
EntryBroken == Entry(<<2, 6>>, TRUE, "dist-info", FALSE, ProbeErr)

\* An entry the listing yields an error for (lines 70-72).
EntryUnlisted == [Entry(<<2, 7>>, FALSE, "", FALSE, ProbeErr) EXCEPT !.listed = FALSE]

OtherEntries == {EntryPlainDir, EntryDangling, EntryFile, EntryBroken}

\* The search path: two site-packages directories and one that does not exist.
SysPath == <<1, 3, 2>>

\* fs::read_dir: the entries of a directory in the order the file system
\* yields them, which is the order they have in the interpreter's listing.
ReadDir(entries, dir) ==
    CASE dir = 3 -> [status |-> "NotFound", entries |-> <<>>]
      [] dir = 4 -> [status |-> "PermissionDenied", entries |-> <<>>]
      [] OTHER -> [status |-> "Ok",
                   entries |-> SelectSeq(entries, LAMBDA e : e.path[1] = dir)]

\* An interpreter, as far as the index reads it: its search path and the
\* entries found under it, as a sequence in the file system's native order.
Interpreter(entries) == [sys_path |-> SysPath, entries |-> entries]

\* One native order of a set of entries: by descending file name.
RECURSIVE Listed(_)
Listed(S) ==
    IF S = {} THEN <<>>
    ELSE LET first == CHOOSE e \in S : \A o \in S : o.path[2] < e.path[2]
                                                  \/ (o.path[2] = e.path[2]
                                                      /\ o.path[1] <= e.path[1])
         IN  <<first>> \o Listed(S \ {first})

Interpreters ==
    {Interpreter(Listed({DistEntry(d) : d \in ds} \cup other)) :
        ds \in {x \in SUBSET Dists : Cardinality(x) <= MaxDists},
        other \in SUBSET OtherEntries}

\* The interpreters scans are compared over: up to MaxListed entries, in
\* every order a file system may list them.
MaxListed == 4

ScanEntries ==
    {DistEntry(d) : d \in {DistA1, DistB1, DistBU, DistB3, DistCU, DistD2}}
        \cup OtherEntries \cup {EntryUnlisted}

\* A search path with a directory that cannot be listed.
SysPathDenied == <<1, 4, 2>>

Enumerations(S) ==
    {order \in [1..Cardinality(S) -> S] :
        \A i, j \in 1..Cardinality(S) : i # j => order[i] # order[j]}

ScanInterpreters ==
    {[Interpreter(order) EXCEPT !.sys_path = sys_path] :
        order \in UNION {Enumerations(S) :
                             S \in {x \in SUBSET ScanEntries : Cardinality(x) <= MaxListed}},
        sys_path \in {SysPath, SysPathDenied}}

(***************************************************************************)
(* InstalledPackages::from_interpreter                                     *)
(***************************************************************************)
\* BTreeSet<PathBuf>: the candidate paths of one directory in path order.
RECURSIVE Ordered(_)
Ordered(S) ==
    IF S = {} THEN <<>>
    ELSE LET first == CHOOSE e \in S : \A o \in S : e.path[2] <= o.path[2]
         IN  <<first>> \o Ordered(S \ {first})

\* The filter of the directory listing: sub-directories and egg files.
IsDistLike(e) == e.is_dir \/ e.extension \in {"egg-link", "egg-info"}

\* Mutant: the candidates are collected into a Vec, in the order listed.
CollectAsListed(listing) == SelectSeq(listing, IsDistLike)

\* dist_likes (lines 59-73): the filtered listing collected into a BTreeSet,
\* which is then iterated in path order.
Collect(listing) ==
    Ordered({listing[i] : i \in {j \in 1..Len(listing) : IsDistLike(listing[j])}})

\* collect::<Result<_, std::io::Error>>()? (line 73): an entry the listing
\* fails on fails the scan.
ListingFails(listing) == \E i \in 1..Len(listing) : ~listing[i].listed

\* HashMap entry(k).or_default().push(v)
MapPush(map, k, v) ==
    IF k \in DOMAIN map THEN [map EXCEPT ![k] = Append(@, v)]
    ELSE map @@ (k :> <<v>>)

EmptyMap == [k \in {} |-> <<>>]

\* Mutant: the slot index is taken after the push, one past the slot.
IndexDistOneBased(acc, dist_info) ==
    LET idx == Len(acc.distributions) + 1
    IN  [acc EXCEPT
            !.by_name = MapPush(@, dist_info.name, idx),
            !.by_url = IF dist_info.kind = "Url" THEN MapPush(@, dist_info.url, idx)
                       ELSE @,
            !.distributions = Append(@, Some(dist_info))]

\* The index of one recognized distribution (lines 106-120).
IndexDist(acc, dist_info) ==
    LET idx == Len(acc.distributions)
    IN  [acc EXCEPT
            !.by_name = MapPush(@, dist_info.name, idx),
            !.by_url = IF dist_info.kind = "Url" THEN MapPush(@, dist_info.url, idx)
                       ELSE @,
            !.distributions = Append(@, Some(dist_info))]

\* Mutant: every candidate whose probe fails is passed over.
RECURSIVE IndexPathsLenient(_, _)
IndexPathsLenient(acc, paths) ==
    IF paths = <<>> \/ ~acc.ok THEN acc
    ELSE LET e == Head(paths)
         IN  CASE e.probe[1] = "Ok" /\ e.probe[2] = None ->
                    IndexPathsLenient(acc, Tail(paths))
               [] e.probe[1] = "Ok" ->
                    IndexPathsLenient(IndexDist(acc, e.probe[2][1]), Tail(paths))
               [] OTHER -> IndexPathsLenient(acc, Tail(paths))

\* The loop over one directory's ordered candidates (lines 83-121).
RECURSIVE IndexPaths(_, _)
IndexPaths(acc, paths) ==
    IF paths = <<>> \/ ~acc.ok THEN acc
    ELSE LET e == Head(paths)
         IN  CASE e.probe[1] = "Ok" /\ e.probe[2] = None ->
                    IndexPaths(acc, Tail(paths))
               [] e.probe[1] = "Ok" ->
                    IndexPaths(IndexDist(acc, e.probe[2][1]), Tail(paths))
               [] e.probe[1] = "Err" /\ e.tilde ->
                    IndexPaths(acc, Tail(paths))
               [] OTHER -> [acc EXCEPT !.ok = FALSE]

\* The loop over the search path (lines 54-122).
RECURSIVE ScanSysPath(_, _, _)
ScanSysPath(acc, interpreter, i) ==
    IF i > Len(interpreter.sys_path) \/ ~acc.ok THEN acc
    ELSE LET listing == ReadDir(interpreter.entries, interpreter.sys_path[i])
         IN  CASE listing.status = "Ok" /\ ListingFails(listing.entries) ->
                    [acc EXCEPT !.ok = FALSE]
               [] listing.status = "Ok" ->
                    ScanSysPath(
                        IndexPaths(acc, Collect(listing.entries)),
                        interpreter, i + 1)
               [] listing.status = "NotFound" ->
                    ScanSysPath(acc, interpreter, i + 1)
               [] OTHER -> [acc EXCEPT !.ok = FALSE]

from_interpreter(interpreter) ==
    ScanSysPath([ok |-> TRUE, distributions |-> <<>>, by_name |-> EmptyMap,
                 by_url |-> EmptyMap], interpreter, 1)


(***************************************************************************)
(* The state: one InstalledPackages value, the last remove_packages call   *)
(* (its argument and what it returned), and the one satisfies call in      *)
(* progress or completed (its arguments, its locals, what it returned).    *)
(***************************************************************************)
VARIABLES
    distributions,  \* Vec<Option<InstalledDist>>
    by_name,        \* FxHashMap<PackageName, Vec<usize>>
    by_url,         \* FxHashMap<Url, Vec<usize>>
    removed,        \* the last remove_packages call: its name, what it returned
    removed_names,  \* the names remove_packages has been called with so far
    pc,             \* "idle"; "loop": inside the while loop of satisfies;
                    \* "done": satisfies has returned
    requirements,   \* satisfies: the root requirements
    constraints,    \* satisfies: the constraints
    markers,        \* satisfies: the marker environment
    stack,          \* satisfies: the worklist
    seen,           \* satisfies: the requirements inserted so far
    popped,         \* satisfies: the entries popped so far, in order
    result,         \* what the last satisfies call returned
    diagnosed,      \* the diagnostics call, if made: its markers, what it returned
    interpreter,    \* the interpreter a scan is made of, where scans are compared
    files,          \* the file system CacheInfo reads: kind and ctime of each path
    manifest,       \* the contents of the directory's pyproject.toml
    repository,     \* what CacheCommit::from_repository finds for the directory
    cwd,            \* where the process's working directory is
    clock,          \* the file system's time
    log             \* the CacheInfo calls and the touches made, in order

index == <<distributions, by_name, by_url>>
call == <<requirements, constraints, markers, stack, seen, popped, result>>
vars == <<distributions, by_name, by_url, removed, removed_names, pc, requirements,
          constraints, markers, stack, seen, popped, result,
         diagnosed, interpreter, files, manifest, repository, cwd, clock, log>>
cache == <<files, manifest, repository, cwd, clock, log>>
installer == <<distributions, by_name, by_url, removed, removed_names, pc, requirements,
               constraints, markers, stack, seen, popped, result, diagnosed, interpreter>>

(***************************************************************************)
(* The read operations.  A slot index out of the array's range is a panic. *)
(***************************************************************************)
Panic == <<[panic |-> TRUE]>>

RECURSIVE Flatten(_)
Flatten(options) ==
    IF options = <<>> THEN <<>> ELSE Head(options) \o Flatten(Tail(options))

\* self.distributions.iter().flatten()
iter == Flatten(distributions)

\* indexes.iter().flat_map(|&index| &self.distributions[index]).collect()
RECURSIVE FlatMapSlots(_, _)
FlatMapSlots(dists, indexes) ==
    IF indexes = <<>> THEN <<>>
    ELSE IF Head(indexes) >= Len(dists) THEN Panic
    ELSE LET rest == FlatMapSlots(dists, Tail(indexes))
         IN  IF rest = Panic THEN Panic ELSE dists[Head(indexes) + 1] \o rest

get_packages(name) ==
    IF name \notin DOMAIN by_name THEN <<>>
    ELSE FlatMapSlots(distributions, by_name[name])

get_urls(url) ==
    IF url \notin DOMAIN by_url THEN <<>>
    ELSE FlatMapSlots(distributions, by_url[url])

\* Mutant: any slot counts, vacated or not.
anySlot == distributions # <<>>

\* self.distributions.iter().any(Option::is_some)
any == \E i \in 1..Len(distributions) : distributions[i] # None

(***************************************************************************)
(* InstalledPackages::remove_packages                                      *)
(***************************************************************************)
\* Mutant: the distributions are cloned out of their slots, which keep them.
RECURSIVE CloneSlots(_, _)
CloneSlots(dists, indexes) ==
    IF indexes = <<>> THEN [distributions |-> dists, taken |-> <<>>]
    ELSE [CloneSlots(dists, Tail(indexes)) EXCEPT
              !.taken = dists[Head(indexes) + 1] \o @]

\* indexes.iter().filter_map(|index| take(&mut self.distributions[*index])):
\* each slot is replaced by None and its old value, if any, is collected.
RECURSIVE TakeSlots(_, _)
TakeSlots(dists, indexes) ==
    IF indexes = <<>> THEN [distributions |-> dists, taken |-> <<>>]
    ELSE LET slot == Head(indexes) + 1
             rest == TakeSlots([dists EXCEPT ![slot] = None], Tail(indexes))
         IN  [rest EXCEPT !.taken = dists[slot] \o @]

\* Mutant: the slots of the name are removed from the array, not tombstoned.
remove_packages_compacting(name) ==
    IF name \notin DOMAIN by_name
    THEN [distributions |-> distributions, taken |-> <<>>]
    ELSE LET kept == {i \in 1..Len(distributions) :
                         \A k \in 1..Len(by_name[name]) : by_name[name][k] + 1 # i}
             compact[i \in 0..Len(distributions)] ==
                 IF i = 0 THEN <<>>
                 ELSE IF i \in kept THEN Append(compact[i - 1], distributions[i])
                 ELSE compact[i - 1]
         IN  [distributions |-> compact[Len(distributions)],
              taken |-> TakeSlots(distributions, by_name[name]).taken]

remove_packages(name) ==
    IF name \notin DOMAIN by_name
    THEN [distributions |-> distributions, taken |-> <<>>]
    ELSE TakeSlots(distributions, by_name[name])


(***************************************************************************)
(* Requirements.                                                           *)
(***************************************************************************)
\* A requirement source: a registry with a version specifier, or a URL.
Registry(specifier) == <<"Registry", specifier>>
SourceUrl(url) == <<"Url", url>>

\* UnresolvedRequirement::Named(Requirement { name, extras, marker, source })
Named(name, extras, marker, source) ==
    [kind |-> "Named", name |-> name, url |-> "", extras |-> extras,
     marker |-> marker, source |-> source]

\* UnresolvedRequirement::Unnamed(UnnamedRequirement { url, extras, marker }):
\* its source is the one its URL parses to.
Unnamed(url, extras, marker) ==
    [kind |-> "Unnamed", name |-> "", url |-> url, extras |-> extras,
     marker |-> marker, source |-> SourceUrl(url)]

\* UnresolvedRequirementSpecification { requirement, hashes }
Specification(requirement, hashes) == [requirement |-> requirement, hashes |-> hashes]

\* Requirement::from(uv_pep508::Requirement): no version is the empty specifier.
RequirementFrom(dependency) ==
    Named(dependency.name, dependency.extras, dependency.marker,
          CASE dependency.version_or_url[1] = "None" -> Registry("")
            [] dependency.version_or_url[1] = "VersionSpecifier" ->
                   Registry(dependency.version_or_url[2])
            [] OTHER -> SourceUrl(dependency.version_or_url[2]))

\* Display of a requirement: name[extras]specifier ; marker, or the URL.  The
\* hashes of a specification are no part of it.
to_string(requirement) ==
    (IF requirement.kind = "Named"
     THEN requirement.name
          \o (IF requirement.extras = {} THEN "" ELSE "[x]")
          \o (IF requirement.source[1] = "Registry" THEN requirement.source[2]
              ELSE " @ " \o requirement.source[2])
     ELSE requirement.url)
    \o (IF requirement.marker = "" THEN "" ELSE " ; " \o requirement.marker)

\* RequirementSatisfaction::check(distribution, source): a registry source asks
\* for the version; a URL source asks for an install from that URL whose cached
\* build is still fresh, and reading the cache entry may fail.
Check(distribution, source) ==
    CASE source[1] = "Registry" ->
             IF Contains(source[2], distribution.version) THEN "Satisfied"
             ELSE "Mismatch"
      [] distribution.kind # "Url" \/ distribution.url # source[2] -> "Mismatch"
      [] distribution.cache = "error" -> "Err"
      [] distribution.cache = "stale" -> "OutOfDate"
      [] OTHER -> "Satisfied"

\* The root requirements and the constraints a call is given.
RootA == Specification(Named("a", {}, "", Registry("")), <<>>)
RootCx == Specification(Named("c", {"x"}, "", Registry("")), <<>>)
RootD == Specification(
    Named("d", {}, "python_full_version >= '9'", Registry("==1")), <<"sha256:0">>)
RootU == Specification(Unnamed("u1", {}, ""), <<>>)

RootSpecs == {RootA, RootCx, RootD, RootU}

\* NameRequirementSpecification { requirement, hashes }
ConstraintD1 == Specification(Named("d", {}, "", Registry("==1")), <<>>)
ConstraintD2 == Specification(Named("d", {}, "", Registry("==2")), <<>>)

ConstraintSpecs == {ConstraintD1, ConstraintD2}

\* The sequences over S of length at most n.
SeqsUpTo(S, n) == UNION {[1..k -> S] : k \in 0..n}

(***************************************************************************)
(* InstalledPackages::satisfies                                            *)
(***************************************************************************)
NoResult == [kind |-> "None", description |-> "", recursive_requirements |-> {}]
Fresh(set) == [kind |-> "Fresh", description |-> "", recursive_requirements |-> set]
Unsatisfied(description) ==
    [kind |-> "Unsatisfied", description |-> description, recursive_requirements |-> {}]
Err == [kind |-> "Err", description |-> "", recursive_requirements |-> {}]

\* The fold that collects the constraints by name (lines 287-296): the map the
\* loop reads, a function of the constraints the call was given.
RECURSIVE CollectConstraints(_, _)
CollectConstraints(map, list) ==
    IF list = <<>> THEN map
    ELSE CollectConstraints(
             MapPush(map, Head(list).requirement.name, Head(list).requirement),
             Tail(list))

\* Mutant: a direct requirement whose markers do not hold ends the loop.
RECURSIVE AddDirectBreaking(_, _, _)
AddDirectBreaking(acc, list, m) ==
    IF list = <<>> THEN acc
    ELSE LET entry == Head(list)
         IN  IF ~EvaluateMarkers(entry.requirement.marker, m, {}) THEN acc
             ELSE IF entry \notin acc.seen
             THEN AddDirectBreaking([stack |-> Append(acc.stack, entry),
                                     seen |-> acc.seen \cup {entry}], Tail(list), m)
             ELSE AddDirectBreaking(acc, Tail(list), m)

\* The loop that adds the direct requirements to the queue (lines 302-308).
RECURSIVE AddDirect(_, _, _)
AddDirect(acc, list, m) ==
    IF list = <<>> THEN acc
    ELSE LET entry == Head(list)
         IN  IF EvaluateMarkers(entry.requirement.marker, m, {})
                /\ entry \notin acc.seen
             THEN AddDirect([stack |-> Append(acc.stack, entry),
                             seen |-> acc.seen \cup {entry}], Tail(list), m)
             ELSE AddDirect(acc, Tail(list), m)

\* Mutant: only the first constraint of the name is checked.
CheckConstraintsFirst(distribution, list) ==
    IF list = <<>> THEN "Satisfied" ELSE Check(distribution, Head(list).source)

\* The loop that validates the installed version against the constraints of
\* its name (lines 335-345): the first check that is not Satisfied decides.
RECURSIVE CheckConstraints(_, _)
CheckConstraints(distribution, list) ==
    IF list = <<>> THEN "Satisfied"
    ELSE LET c == Check(distribution, Head(list).source)
         IN  IF c = "Satisfied" THEN CheckConstraints(distribution, Tail(list))
             ELSE c

ConstraintsOf(map, name) == IF name \in DOMAIN map THEN map[name] ELSE <<>>

\* Mutant: the markers of the dependencies are evaluated without the extras of
\* the requirement that brought the distribution in.
RECURSIVE AddDependenciesWithoutExtras(_, _, _, _)
AddDependenciesWithoutExtras(acc, requires_dist, m, extras) ==
    IF requires_dist = <<>> THEN acc
    ELSE LET dependency == Specification(RequirementFrom(Head(requires_dist)), <<>>)
         IN  IF EvaluateMarkers(Head(requires_dist).marker, m, {})
                /\ dependency \notin acc.seen
             THEN AddDependenciesWithoutExtras(
                      [stack |-> Append(acc.stack, dependency),
                       seen |-> acc.seen \cup {dependency}],
                      Tail(requires_dist), m, extras)
             ELSE AddDependenciesWithoutExtras(acc, Tail(requires_dist), m, extras)

\* Mutant: a dependency is pushed whether or not it has been seen.
RECURSIVE AddDependenciesUnseen(_, _, _, _)
AddDependenciesUnseen(acc, requires_dist, m, extras) ==
    IF requires_dist = <<>> THEN acc
    ELSE LET dependency == Specification(RequirementFrom(Head(requires_dist)), <<>>)
         IN  IF EvaluateMarkers(Head(requires_dist).marker, m, extras)
             THEN AddDependenciesUnseen(
                      [stack |-> Append(acc.stack, dependency),
                       seen |-> acc.seen \cup {dependency}],
                      Tail(requires_dist), m, extras)
             ELSE AddDependenciesUnseen(acc, Tail(requires_dist), m, extras)

\* The loop that adds the dependencies to the queue (lines 353-365).
RECURSIVE AddDependencies(_, _, _, _)
AddDependencies(acc, requires_dist, m, extras) ==
    IF requires_dist = <<>> THEN acc
    ELSE LET dependency == Specification(RequirementFrom(Head(requires_dist)), <<>>)
         IN  IF EvaluateMarkers(Head(requires_dist).marker, m, extras)
                /\ dependency \notin acc.seen
             THEN AddDependencies([stack |-> Append(acc.stack, dependency),
                                   seen |-> acc.seen \cup {dependency}],
                                  Tail(requires_dist), m, extras)
             ELSE AddDependencies(acc, Tail(requires_dist), m, extras)

\* The distributions a requirement resolves to (lines 312-317).
Installed(requirement) ==
    IF requirement.kind = "Named" THEN get_packages(requirement.name)
    ELSE get_urls(requirement.url)

\* What one pass of the while loop ends with: what satisfies returns, or the
\* stack and the seen set the loop goes on with.
Return(r, rest) == [returns |-> TRUE, result |-> r, stack |-> rest, seen |-> seen]
Continue(next) ==
    [returns |-> FALSE, result |-> NoResult, stack |-> next.stack, seen |-> next.seen]

\* Mutant: a requirement whose package isn't installed is passed over.
VisitNoneGoesOn(entry, rest) == Continue([stack |-> rest, seen |-> seen])

\* The package isn't installed (lines 319-322).
VisitNone(entry, rest) == Return(Unsatisfied(to_string(entry.requirement)), rest)

\* Mutant: the installed distribution is taken whatever source it came from.
CheckSourceOfAny(distribution, entry) == "Satisfied"

\* The check of the distribution against the requirement's source (lines 324-327).
CheckSource(distribution, entry) == Check(distribution, entry.requirement.source)

\* Mutant: metadata that cannot be read counts as declaring no dependencies.
ReadMetadataLenient(distribution) ==
    IF distribution.readable THEN Some(distribution.requires_dist) ELSE Some(<<>>)

\* distribution.metadata() (lines 348-350): the declared dependencies, or None
\* when the metadata cannot be read.
ReadMetadata(distribution) ==
    IF distribution.readable THEN Some(distribution.requires_dist) ELSE None

\* Exactly one distribution is installed (lines 323-366).
VisitOne(entry, rest, distribution) ==
    LET description == to_string(entry.requirement)
        source == CheckSource(distribution, entry)
        constraint ==
            CheckConstraints(distribution,
                             ConstraintsOf(CollectConstraints(EmptyMap, constraints),
                                           distribution.name))
        metadata == ReadMetadata(distribution)
    IN  CASE source = "Err" -> Return(Err, rest)
          [] source # "Satisfied" -> Return(Unsatisfied(description), rest)
          [] constraint = "Err" -> Return(Err, rest)
          [] constraint # "Satisfied" -> Return(Unsatisfied(description), rest)
          [] metadata = None -> Return(Err, rest)
          [] OTHER ->
              Continue(AddDependencies([stack |-> rest, seen |-> seen], metadata[1],
                                       markers, entry.requirement.extras))

\* Mutant: of several installed distributions the first is taken.
VisitManyTakesFirst(entry, rest) ==
    VisitOne(entry, rest, Installed(entry.requirement)[1])

\* There are multiple installed distributions for the same package
\* (lines 367-370).
VisitMany(entry, rest) == Return(Unsatisfied(to_string(entry.requirement)), rest)

\* One pass of the while loop for the popped entry (lines 312-371).
Visit(entry, rest) ==
    LET installed == Installed(entry.requirement)
    IN  CASE Len(installed) = 0 -> VisitNone(entry, rest)
          [] Len(installed) = 1 -> VisitOne(entry, rest, installed[1])
          [] OTHER -> VisitMany(entry, rest)

(***************************************************************************)
(* InstalledPackages::diagnostics                                          *)
(***************************************************************************)
DuplicatePackage(package, paths) ==
    [kind |-> "DuplicatePackage", package |-> package, paths |-> paths]
MetadataUnavailable(package, path) ==
    [kind |-> "MetadataUnavailable", package |-> package, path |-> path]
IncompatiblePythonVersion(package, version, requires_python) ==
    [kind |-> "IncompatiblePythonVersion", package |-> package, version |-> version,
     requires_python |-> requires_python]
MissingDependency(package, requirement) ==
    [kind |-> "MissingDependency", package |-> package, requirement |-> requirement]
IncompatibleDependency(package, version, requirement) ==
    [kind |-> "IncompatibleDependency", package |-> package, version |-> version,
     requirement |-> requirement]

\* Verify that the package is compatible with the current Python version
\* (lines 221-230).
PythonDiagnostics(package, distribution, m) ==
    IF /\ distribution.requires_python # None
       /\ ~Contains(distribution.requires_python[1], m.python_full_version)
    THEN <<IncompatiblePythonVersion(package, m.python_full_version,
                                     distribution.requires_python[1])>>
    ELSE <<>>

\* Mutant: the marker of the dependency is not evaluated.
DependencyDiagnosticsUnmarked(package, dependency, m) ==
    LET installed == get_packages(dependency.name)
    IN  CASE Len(installed) = 0 -> <<MissingDependency(package, dependency)>>
          [] Len(installed) = 1 ->
              IF /\ dependency.version_or_url[1] = "VersionSpecifier"
                 /\ ~Contains(dependency.version_or_url[2], installed[1].version)
              THEN <<IncompatibleDependency(package, installed[1].version, dependency)>>
              ELSE <<>>
          [] OTHER -> <<>>

\* Verify that one dependency is installed (lines 234-268).
DependencyDiagnostics(package, dependency, m) ==
    IF ~EvaluateMarkers(dependency.marker, m, {}) THEN <<>>
    ELSE LET installed == get_packages(dependency.name)
         IN  CASE Len(installed) = 0 -> <<MissingDependency(package, dependency)>>
               [] Len(installed) = 1 ->
                   IF /\ dependency.version_or_url[1] = "VersionSpecifier"
                      /\ ~Contains(dependency.version_or_url[2], installed[1].version)
                   THEN <<IncompatibleDependency(package, installed[1].version,
                                                 dependency)>>
                   ELSE <<>>
               [] OTHER -> <<>>

\* Mutant: the loop over the dependencies ends at the first finding.
RECURSIVE DependenciesDiagnosticsFailFast(_, _, _)
DependenciesDiagnosticsFailFast(package, requires_dist, m) ==
    IF requires_dist = <<>> THEN <<>>
    ELSE IF DependencyDiagnostics(package, Head(requires_dist), m) # <<>>
    THEN DependencyDiagnostics(package, Head(requires_dist), m)
    ELSE DependenciesDiagnosticsFailFast(package, Tail(requires_dist), m)

\* for dependency in &metadata.requires_dist (line 233).
RECURSIVE DependenciesDiagnostics(_, _, _)
DependenciesDiagnostics(package, requires_dist, m) ==
    IF requires_dist = <<>> THEN <<>>
    ELSE DependencyDiagnostics(package, Head(requires_dist), m)
         \o DependenciesDiagnostics(package, Tail(requires_dist), m)

\* The body of the loop over the slots of a package (lines 207-270).
SlotDiagnostics(package, slot, m) ==
    IF slot = None THEN <<>>
    ELSE LET distribution == slot[1]
             metadata == ReadMetadata(distribution)
         IN  IF metadata = None
             THEN <<MetadataUnavailable(package, distribution.path)>>
             ELSE PythonDiagnostics(package, distribution, m)
                  \o DependenciesDiagnostics(package, metadata[1], m)

\* for index in indexes (line 206).
RECURSIVE SlotsDiagnostics(_, _, _)
SlotsDiagnostics(package, indexes, m) ==
    IF indexes = <<>> THEN <<>>
    ELSE SlotDiagnostics(package, distributions[Head(indexes) + 1], m)
         \o SlotsDiagnostics(package, Tail(indexes), m)

\* Mutant: a duplicate is reported with the first two paths only.
PackageDiagnosticsTwoPaths(package, indexes, m) ==
    LET live == FlatMapSlots(distributions, indexes)
    IN  CASE Len(live) = 0 -> <<>>
          [] Len(live) >= 2 ->
              <<DuplicatePackage(package, <<live[1].path, live[2].path>>)>>
          [] OTHER -> SlotsDiagnostics(package, indexes, m)

\* The body of the loop over by_name (lines 187-271).
PackageDiagnostics(package, indexes, m) ==
    LET live == FlatMapSlots(distributions, indexes)
    IN  CASE Len(live) = 0 -> <<>>
          [] Len(live) >= 2 ->
              <<DuplicatePackage(package, [i \in 1..Len(live) |-> live[i].path])>>
          [] OTHER -> SlotsDiagnostics(package, indexes, m)

\* The order in which `for (package, indexes) in &self.by_name` (line 187)
\* meets the keys.  The hasher of an FxHashMap is fixed, so the order is a
\* function of the sequence in which the keys were inserted; it is taken to be
\* that sequence, which is the order of the keys' first slots.
KeyOrder(map) ==
    LET before(k) == Cardinality({o \in DOMAIN map : map[o][1] < map[k][1]})
    IN  [i \in 1..Cardinality(DOMAIN map) |->
            CHOOSE k \in DOMAIN map : before(k) = i - 1]

\* The vector the loop over by_name fills (lines 185-274).
AllDiagnostics(packages, m) ==
    LET RECURSIVE From(_)
        From(i) ==
            IF i > Len(packages) THEN <<>>
            ELSE PackageDiagnostics(packages[i], by_name[packages[i]], m) \o From(i + 1)
    IN  From(1)

\* diagnostics(markers) (lines 181-277): always Ok.  What is pushed for each
\* package is also kept under the package.
diagnostics(m) ==
    [kind |-> "Ok",
     diagnostics |-> [package \in DOMAIN by_name |->
                          PackageDiagnostics(package, by_name[package], m)],
     vec |-> AllDiagnostics(KeyOrder(by_name), m)]

(***************************************************************************)
(* The actions.                                                            *)
(***************************************************************************)
\* No CacheInfo call is made: nothing of the file system is read.
NoCacheInfo ==
    /\ files = <<>>
    /\ manifest = None
    /\ repository = None
    /\ cwd = ""
    /\ clock = 0
    /\ log = <<>>

\* A call of remove_packages(name), which needs the index exclusively.
RemovePackages(name) ==
    /\ pc = "idle"
    /\ diagnosed = None
    /\ Cardinality(removed_names \cup {name}) <= MaxRemoves
    /\ LET r == remove_packages(name)
       IN  /\ distributions' = r.distributions
           /\ removed' = [name |-> name, taken |-> r.taken]
    /\ removed_names' = removed_names \cup {name}
    /\ UNCHANGED <<by_name, by_url, pc, call, diagnosed, interpreter, cache>>

\* A call of satisfies, up to its while loop (lines 286-308).  satisfies only
\* reads the index, so whatever is called after it has returned sees what it
\* would have seen in its place: a behaviour is some removals followed by one
\* call, and by one call of diagnostics.
SatisfiesCall(reqs, cons, m) ==
    /\ pc = "idle"
    /\ diagnosed = None
    /\ LET direct == AddDirect([stack |-> <<>>, seen |-> {}], reqs, m)
       IN  /\ stack' = direct.stack
           /\ seen' = direct.seen
    /\ requirements' = reqs
    /\ constraints' = cons
    /\ markers' = m
    /\ popped' = <<>>
    /\ result' = NoResult
    /\ pc' = "loop"
    /\ UNCHANGED <<index, removed, removed_names, diagnosed, interpreter, cache>>

\* One pass of the while loop (lines 311-372).
SatisfiesLoop ==
    /\ pc = "loop"
    /\ stack # <<>>
    /\ LET entry == stack[Len(stack)]
           v == Visit(entry, SubSeq(stack, 1, Len(stack) - 1))
       IN  /\ popped' = Append(popped, entry)
           /\ stack' = v.stack
           /\ seen' = v.seen
           /\ result' = v.result
           /\ pc' = IF v.returns THEN "done" ELSE "loop"
    /\ UNCHANGED <<index, removed, removed_names, requirements, constraints, markers,
                   diagnosed, interpreter, cache>>

\* The worklist has drained (lines 374-376).
SatisfiesFresh ==
    /\ pc = "loop"
    /\ stack = <<>>
    /\ result' = Fresh(seen)
    /\ pc' = "done"
    /\ UNCHANGED <<index, removed, removed_names, requirements, constraints,
                   markers, stack, seen, popped, diagnosed, interpreter, cache>>

\* A call of diagnostics(m) (lines 181-277), which only reads the index.
Diagnostics(m) ==
    /\ pc \in {"idle", "done"}
    /\ diagnosed = None
    /\ diagnosed' = Some([markers |-> m, result |-> diagnostics(m)])
    /\ UNCHANGED <<index, removed, removed_names, pc, call, interpreter, cache>>

Init ==
    /\ \E python \in Interpreters :
          LET built == from_interpreter(python)
          IN  /\ built.ok
              /\ distributions = built.distributions
              /\ by_name = built.by_name
              /\ by_url = built.by_url
    /\ removed = [name |-> "", taken |-> <<>>]
    /\ removed_names = {}
    /\ pc = "idle"
    /\ requirements = <<>>
    /\ constraints = <<>>
    /\ markers = None
    /\ stack = <<>>
    /\ seen = {}
    /\ popped = <<>>
    /\ result = NoResult
    /\ diagnosed = None
    /\ interpreter = None
    /\ NoCacheInfo

Next ==
    \/ \E name \in PackageNames : RemovePackages(name)
    \/ \E reqs \in SeqsUpTo(RootSpecs, MaxRoots),
          cons \in SeqsUpTo(ConstraintSpecs, MaxConstraints),
          m \in MarkerEnvs : SatisfiesCall(reqs, cons, m)
    \/ SatisfiesLoop
    \/ SatisfiesFresh
    \/ \E m \in MarkerEnvs : Diagnostics(m)

Spec == Init /\ [][Next]_vars

\* One call of satisfies, run to its end: once called, the loop goes on
\* until it returns.
TraversalNext ==
    \/ \E reqs \in SeqsUpTo(RootSpecs, MaxRoots),
          cons \in SeqsUpTo(ConstraintSpecs, MaxConstraints),
          m \in MarkerEnvs : SatisfiesCall(reqs, cons, m)
    \/ SatisfiesLoop
    \/ SatisfiesFresh

FairSpec ==
    /\ Init
    /\ [][TraversalNext]_vars
    /\ WF_vars(SatisfiesLoop)
    /\ WF_vars(SatisfiesFresh)

(***************************************************************************)
(* uv-cache-info: the file system CacheInfo reads.  A path is the sequence *)
(* of its components; a relative path starts with "." and is resolved      *)
(* against the working directory of the process.                           *)
(***************************************************************************)
Ok(value) == [ok |-> TRUE, value |-> value]
IoError(kind) == [ok |-> FALSE, error |-> kind]

\* Path::join
Join(directory, name) == Append(directory, name)

Resolve(path) == IF path[1] = "." THEN cwd \o Tail(path) ELSE path

Missing == [kind |-> "missing", ctime |-> 0]
RegularFile(ctime) == [kind |-> "file", ctime |-> ctime]
Directory(ctime) == [kind |-> "dir", ctime |-> ctime]

\* std::fs::metadata: fails for a path that does not exist.
Metadata(path) ==
    LET at == Resolve(path)
    IN  IF at \in DOMAIN files /\ files[at].kind # "missing"
        THEN Ok([is_file |-> files[at].kind = "file", ctime |-> files[at].ctime])
        ELSE IoError("NotFound")

\* Timestamp::from_metadata: the ctime of the file.
FromMetadata(metadata) == metadata.ctime

\* fs_err::read_to_string of the manifest of a directory: fails unless it is a
\* regular file holding UTF-8 text.
ReadToString(path) ==
    IF /\ Metadata(path).ok
       /\ Metadata(path).value.is_file
       /\ Resolve(path) = <<"dir", "pyproject.toml">>
       /\ manifest # None
       /\ manifest[1].utf8
    THEN Ok(manifest[1].toml)
    ELSE IoError("Unreadable")

(***************************************************************************)
(* TOML values, and their deserialization into PyProjectToml.              *)
(***************************************************************************)
\* A value carries its type, its scalar, and its items: the elements of an
\* array (under the empty key) or the key/value pairs of a table.
Value(type, scalar, items) == [type |-> type, scalar |-> scalar, items |-> items]
KeyValue(key, value) == [key |-> key, value |-> value]

String(value) == Value("string", value, <<>>)
Boolean(value) == Value("boolean", IF value THEN "true" ELSE "false", <<>>)
Integer(value) == Value("integer", ToString(value), <<>>)
Array(values) == Value("array", "", [i \in 1..Len(values) |-> KeyValue("", values[i])])
Table(pairs) == Value("table", "", pairs)
\* Text that is not TOML.
Invalid == Value("invalid", "", <<>>)

Keys(table) == {table.items[i].key : i \in 1..Len(table.items)}
Get(table, key) ==
    table.items[CHOOSE i \in 1..Len(table.items) : table.items[i].key = key].value

\* CacheKey (lines 164-174)
Path(file) == [variant |-> "Path", file |-> file, git |-> FALSE]
File(file) == [variant |-> "File", file |-> file, git |-> FALSE]
Git(git) == [variant |-> "Git", file |-> <<>>, git |-> git]

\* A path as a manifest writes it: relative.
PathBuf(name) == <<".", name>>

\* Mutant: a table is taken by the first of its fields that a variant knows.
DeserializeCacheKeyLenient(value) ==
    CASE value.type = "string" -> Ok(Path(PathBuf(value.scalar)))
      [] /\ value.type = "table"
         /\ "file" \in Keys(value)
         /\ Get(value, "file").type = "string" ->
             Ok(File(PathBuf(Get(value, "file").scalar)))
      [] /\ value.type = "table"
         /\ "git" \in Keys(value)
         /\ Get(value, "git").type = "boolean" ->
             Ok(Git(Get(value, "git").scalar = "true"))
      [] OTHER -> IoError("data did not match any variant of untagged enum CacheKey")

\* Deserialize for CacheKey (lines 164-174): untagged, so the variants are
\* tried in order; deny_unknown_fields, so a table with any other field
\* matches none.
DeserializeCacheKey(value) ==
    CASE value.type = "string" -> Ok(Path(PathBuf(value.scalar)))
      [] /\ value.type = "table"
         /\ Keys(value) = {"file"}
         /\ Get(value, "file").type = "string" ->
             Ok(File(PathBuf(Get(value, "file").scalar)))
      [] /\ value.type = "table"
         /\ Keys(value) = {"git"}
         /\ Get(value, "git").type = "boolean" ->
             Ok(Git(Get(value, "git").scalar = "true"))
      [] OTHER -> IoError("data did not match any variant of untagged enum CacheKey")

\* Mutant: an entry of an unknown shape is skipped.
DeserializeCacheKeysSkipping(value) ==
    IF value.type # "array" THEN IoError("invalid type")
    ELSE LET known == SelectSeq(value.items, LAMBDA v : DeserializeCacheKey(v.value).ok)
         IN  Ok([i \in 1..Len(known) |-> DeserializeCacheKey(known[i].value).value])

\* Deserialize for Vec<CacheKey> (line 161): fails when an element fails.
DeserializeCacheKeys(value) ==
    IF value.type # "array" THEN IoError("invalid type")
    ELSE IF \E i \in 1..Len(value.items) : ~DeserializeCacheKey(value.items[i].value).ok
    THEN IoError("data did not match any variant of untagged enum CacheKey")
    ELSE Ok([i \in 1..Len(value.items) |->
                DeserializeCacheKey(value.items[i].value).value])

\* Deserialize for ToolUv (lines 158-162): cache-keys is optional.
DeserializeToolUv(value) ==
    CASE value.type # "table" -> IoError("invalid type")
      [] "cache-keys" \notin Keys(value) -> Ok([cache_keys |-> None])
      [] ~DeserializeCacheKeys(Get(value, "cache-keys")).ok ->
             DeserializeCacheKeys(Get(value, "cache-keys"))
      [] OTHER ->
             Ok([cache_keys |-> Some(DeserializeCacheKeys(Get(value, "cache-keys")).value)])

\* Deserialize for Tool (lines 152-156): uv is optional.
DeserializeTool(value) ==
    CASE value.type # "table" -> IoError("invalid type")
      [] "uv" \notin Keys(value) -> Ok([uv |-> None])
      [] ~DeserializeToolUv(Get(value, "uv")).ok -> DeserializeToolUv(Get(value, "uv"))
      [] OTHER -> Ok([uv |-> Some(DeserializeToolUv(Get(value, "uv")).value)])

\* toml::from_str::<PyProjectToml> (lines 146-150): tool is optional.
DeserializePyProjectToml(contents) ==
    CASE contents.type # "table" -> IoError("invalid TOML")
      [] "tool" \notin Keys(contents) -> Ok([tool |-> None])
      [] ~DeserializeTool(Get(contents, "tool")).ok -> DeserializeTool(Get(contents, "tool"))
      [] OTHER -> Ok([tool |-> Some(DeserializeTool(Get(contents, "tool")).value)])

(***************************************************************************)
(* CacheInfo                                                               *)
(***************************************************************************)
CacheInfo(timestamp, commit) == [timestamp |-> timestamp, commit |-> commit]

\* Default for CacheInfo (line 12)
DefaultCacheInfo == CacheInfo(None, None)

from_timestamp(timestamp) == [DefaultCacheInfo EXCEPT !.timestamp = Some(timestamp)]

is_empty(info) == info.timestamp = None /\ info.commit = None

\* Mutant: an absent timestamp resets the running maximum.
maxOrReset(a, b) ==
    CASE b = None -> None
      [] a = None -> b
      [] OTHER -> IF a[1] >= b[1] THEN a ELSE b

\* Mutant: the first timestamp found is kept.
maxKeepsFirst(a, b) == IF a = None THEN b ELSE a

\* std::cmp::max on Option<Timestamp>: None is below every Some.
max(a, b) ==
    CASE a = None -> b
      [] b = None -> a
      [] OTHER -> IF a[1] > b[1] THEN a ELSE b

\* CacheCommit::from_repository(directory)
FromRepository(directory) ==
    IF directory = <<"dir">> /\ repository # None THEN Ok(repository[1])
    ELSE IoError("not a repository")

\* Read the cache keys (lines 50-62).
ReadCacheKeys(directory) ==
    LET contents == ReadToString(Join(directory, "pyproject.toml"))
    IN  IF ~contents.ok THEN None
        ELSE LET pyproject_toml == DeserializePyProjectToml(contents.value)
             IN  CASE ~pyproject_toml.ok -> None
                   [] pyproject_toml.value.tool = None -> None
                   [] pyproject_toml.value.tool[1].uv = None -> None
                   [] OTHER -> pyproject_toml.value.tool[1].uv[1].cache_keys

\* If no cache keys were defined, use the defaults (lines 65-71).
DefaultCacheKeys(directory) ==
    <<Path(Join(directory, "pyproject.toml")),
      Path(Join(directory, "setup.py")),
      Path(Join(directory, "setup.cfg"))>>

\* Mutant: the defaults are watched along with a custom list.
CacheKeysWithDefaults(directory) ==
    IF ReadCacheKeys(directory) = None THEN DefaultCacheKeys(directory)
    ELSE ReadCacheKeys(directory)[1] \o DefaultCacheKeys(directory)

CacheKeys(directory) ==
    IF ReadCacheKeys(directory) = None THEN DefaultCacheKeys(directory)
    ELSE ReadCacheKeys(directory)[1]

\* file.metadata().ok().filter(Metadata::is_file).map(Timestamp::from_metadata)
\* (lines 79-83)
FileTimestamp(file) ==
    IF Metadata(file).ok /\ Metadata(file).value.is_file
    THEN Some(FromMetadata(Metadata(file).value))
    ELSE None

\* Mutant: git = false suppresses a commit found before it.
IncorporateKeySuppressing(info, cache_key, directory) ==
    CASE cache_key.variant \in {"Path", "File"} ->
             [info EXCEPT !.timestamp = max(@, FileTimestamp(cache_key.file))]
      [] cache_key.git ->
             IF FromRepository(directory).ok
             THEN [info EXCEPT !.commit = Some(FromRepository(directory).value)]
             ELSE info
      [] OTHER -> [info EXCEPT !.commit = None]

\* One pass of the loop over the cache keys (lines 75-93).
IncorporateKey(info, cache_key, directory) ==
    CASE cache_key.variant \in {"Path", "File"} ->
             [info EXCEPT !.timestamp = max(@, FileTimestamp(cache_key.file))]
      [] cache_key.git ->
             IF FromRepository(directory).ok
             THEN [info EXCEPT !.commit = Some(FromRepository(directory).value)]
             ELSE info
      [] OTHER -> info

\* Incorporate any additional timestamps or VCS information (lines 74-94).
RECURSIVE Incorporate(_, _, _)
Incorporate(info, cache_keys, directory) ==
    IF cache_keys = <<>> THEN info
    ELSE Incorporate(IncorporateKey(info, Head(cache_keys), directory),
                     Tail(cache_keys), directory)

from_directory(directory) ==
    Ok(Incorporate(CacheInfo(None, None), CacheKeys(directory), directory))

\* Mutant: the file is taken for a source tree of one file, with its commit.
from_file_with_commit(path) ==
    IF ~Metadata(path).ok THEN Metadata(path)
    ELSE Ok(CacheInfo(Some(FromMetadata(Metadata(path).value)),
                      IF FromRepository(<<"dir">>).ok
                      THEN Some(FromRepository(<<"dir">>).value) ELSE None))

from_file(path) ==
    IF ~Metadata(path).ok THEN Metadata(path)
    ELSE Ok([DefaultCacheInfo EXCEPT
                 !.timestamp = Some(FromMetadata(Metadata(path).value))])

from_path(path) ==
    CASE ~Metadata(path).ok -> Metadata(path)
      [] Metadata(path).value.is_file -> from_file(path)
      [] OTHER -> from_directory(path)

(***************************************************************************)
(* CacheInfo on the wire.  A serialized value is a bare timestamp, a        *)
(* structure of fields, or anything else.                                  *)
(***************************************************************************)
Wire(shape, timestamp, commit) ==
    [shape |-> shape, timestamp |-> timestamp, commit |-> commit]

\* Serialize for Timestamp: a bare timestamp.
Scalar(timestamp) == Wire("timestamp", Some(timestamp), None)
\* A structure with the fields timestamp and commit.
Struct(timestamp, commit) == Wire("struct", timestamp, commit)
\* A value that is neither.
Garbage == Wire("other", None, None)

\* derive(Serialize) for CacheInfo (lines 12-23): a structure of its fields.
Serialize(info) == Struct(info.timestamp, info.commit)

\* CacheInfoWire::Timestamp(Timestamp) (line 126)
WireTimestamp(timestamp) ==
    [variant |-> "Timestamp", timestamp |-> Some(timestamp), commit |-> None]
\* CacheInfoWire::TimestampCommit(TimestampCommit) (lines 115-119, 128)
WireTimestampCommit(timestamp, commit) ==
    [variant |-> "TimestampCommit", timestamp |-> timestamp, commit |-> commit]

\* Mutant: every wire value is taken for the older format.
DeserializeCacheInfoWireTimestampOnly(wire) ==
    CASE wire.shape = "timestamp" -> Ok(WireTimestamp(wire.timestamp[1]))
      [] wire.shape = "struct" /\ wire.timestamp # None ->
             Ok(WireTimestamp(wire.timestamp[1]))
      [] OTHER -> IoError("data did not match any variant of untagged enum CacheInfoWire")

\* Deserialize for CacheInfoWire (lines 121-129): untagged, so Timestamp is
\* tried first, and TimestampCommit when that fails.
DeserializeCacheInfoWire(wire) ==
    CASE wire.shape = "timestamp" -> Ok(WireTimestamp(wire.timestamp[1]))
      [] wire.shape = "struct" -> Ok(WireTimestampCommit(wire.timestamp, wire.commit))
      [] OTHER -> IoError("data did not match any variant of untagged enum CacheInfoWire")

\* From<CacheInfoWire> for CacheInfo (lines 131-143)
FromCacheInfoWire(wire) ==
    IF wire.variant = "Timestamp"
    THEN [DefaultCacheInfo EXCEPT !.timestamp = wire.timestamp]
    ELSE CacheInfo(wire.timestamp, wire.commit)

\* Deserialize for CacheInfo: serde(try_from = "CacheInfoWire") (line 14).
Deserialize(wire) ==
    IF DeserializeCacheInfoWire(wire).ok
    THEN Ok(FromCacheInfoWire(DeserializeCacheInfoWire(wire).value))
    ELSE DeserializeCacheInfoWire(wire)

(***************************************************************************)
(* Scans compared: an interpreter is scanned, and scanned again with its   *)
(* directories listed in another order; the index is read and removed from *)
(* as before.                                                              *)
(***************************************************************************)
\* from_interpreter(interpreter) (lines 49-130).
Scan ==
    /\ pc = "unbuilt"
    /\ LET built == from_interpreter(interpreter[1])
       IN  IF built.ok
           THEN /\ distributions' = built.distributions
                /\ by_name' = built.by_name
                /\ by_url' = built.by_url
                /\ pc' = "idle"
           ELSE /\ pc' = "failed"
                /\ UNCHANGED index
    /\ UNCHANGED <<removed, removed_names, call, diagnosed, interpreter, cache>>

\* from_interpreter over the same entries, listed in another order.
Rescan(order) ==
    /\ pc = "idle"
    /\ removed_names = {}
    /\ diagnosed = None
    /\ order # interpreter[1].entries
    /\ LET built == from_interpreter(Interpreter(order))
       IN  /\ built.ok
           /\ distributions' = built.distributions
           /\ by_name' = built.by_name
           /\ by_url' = built.by_url
    /\ interpreter' = Some(Interpreter(order))
    /\ UNCHANGED <<removed, removed_names, pc, call, diagnosed, cache>>

ScanInit ==
    /\ interpreter \in {Some(i) : i \in ScanInterpreters}
    /\ distributions = <<>>
    /\ by_name = EmptyMap
    /\ by_url = EmptyMap
    /\ removed = [name |-> "", taken |-> <<>>]
    /\ removed_names = {}
    /\ pc = "unbuilt"
    /\ requirements = <<>>
    /\ constraints = <<>>
    /\ markers = None
    /\ stack = <<>>
    /\ seen = {}
    /\ popped = <<>>
    /\ result = NoResult
    /\ diagnosed = None
    /\ NoCacheInfo

ScanNext ==
    \/ Scan
    \/ \E order \in Enumerations({interpreter[1].entries[i] :
                                     i \in 1..Len(interpreter[1].entries)}) :
           Rescan(order)
    \/ \E name \in PackageNames : RemovePackages(name)
    \/ \E m \in MarkerEnvs : Diagnostics(m)

ScanSpec == ScanInit /\ [][ScanNext]_vars

(***************************************************************************)
(* CacheInfo over a directory: its manifest, the files its cache keys may  *)
(* name, and its repository.  The calls only read the file system, so a    *)
(* behaviour is one call, or from_directory repeated after touches.        *)
(***************************************************************************)
MaxTouches == 1
MaxTimestamp == 3

Dir == <<"dir">>
PyProject == <<"dir", "pyproject.toml">>
SetupPy == <<"dir", "setup.py">>
SetupCfg == <<"dir", "setup.cfg">>
ExtraLock == <<"dir", "extra.lock">>
ElsewhereLock == <<"elsewhere", "extra.lock">>
Gone == <<"dir", "gone.whl">>

Paths == {Dir, PyProject, SetupPy, SetupCfg, ExtraLock, ElsewhereLock}

\* What each path may be when the first call is made.
FileStates(path) ==
    CASE path = Dir -> {Directory(1)}
      [] path = PyProject -> {Missing, RegularFile(1), Directory(1)}
      [] path = SetupPy -> {Missing, RegularFile(2), Directory(3)}
      [] path = SetupCfg -> {Missing, RegularFile(1)}
      [] path = ExtraLock -> {Missing, RegularFile(3)}
      [] OTHER -> {Missing, RegularFile(1)}

FileSystems ==
    {fs \in [Paths -> UNION {FileStates(path) : path \in Paths}] :
        \A path \in Paths : fs[path] \in FileStates(path)}

\* Manifests: a [tool.uv] section with the given cache-keys array.
Section(key, value) == Table(<<KeyValue(key, value)>>)
WithCacheKeys(keys) == Section("tool", Section("uv", Section("cache-keys", Array(keys))))

Text(toml) == [utf8 |-> TRUE, toml |-> toml]

Manifests ==
    {[utf8 |-> FALSE, toml |-> Invalid],
     Text(Invalid),
     Text(Table(<<>>)),
     Text(Section("tool", String("uv"))),
     Text(Section("tool", Table(<<>>))),
     Text(Section("tool", Section("uv", Table(<<>>)))),
     Text(Section("tool", Section("uv", Section("cache_keys", Array(<<String("x")>>))))),
     Text(WithCacheKeys(<<>>)),
     Text(WithCacheKeys(<<String("extra.lock")>>)),
     Text(WithCacheKeys(<<Section("file", String("extra.lock")),
                          Section("git", Boolean(TRUE))>>)),
     Text(WithCacheKeys(<<String("setup.py"), Section("git", Boolean(FALSE)),
                          String("extra.lock")>>)),
     Text(WithCacheKeys(<<String("extra.lock"), Section("dir", String("x"))>>)),
     Text(WithCacheKeys(<<Table(<<KeyValue("file", String("x")),
                                  KeyValue("git", Boolean(TRUE))>>),
                          String("extra.lock")>>)),
     Text(WithCacheKeys(<<Section("git", String("yes")), String("extra.lock")>>)),
     Text(WithCacheKeys(<<String("extra.lock"), Integer(3)>>)),
     Text(WithCacheKeys(<<Section("git", Boolean(TRUE)), String("setup.py"),
                          Section("git", Boolean(FALSE))>>)),
     Text(WithCacheKeys(<<Section("git", Boolean(FALSE)), String("extra.lock")>>))}

Call(op, path, value) == [op |-> op, path |-> path, result |-> value, files |-> files]

\* CacheInfo::from_directory(dir)
FromDirectory ==
    /\ IF log = <<>> THEN TRUE ELSE log[Len(log)].op = "touch"
    /\ log' = Append(log, Call("from_directory", Dir, from_directory(Dir)))
    /\ UNCHANGED <<files, manifest, repository, cwd, clock, installer>>

\* CacheInfo::from_path(path)
FromPath(path) ==
    /\ log = <<>>
    /\ log' = Append(log, Call("from_path", path, from_path(path)))
    /\ UNCHANGED <<files, manifest, repository, cwd, clock, installer>>

\* CacheInfo::from_file(path)
FromFile(path) ==
    /\ log = <<>>
    /\ log' = Append(log, Call("from_file", path, from_file(path)))
    /\ UNCHANGED <<files, manifest, repository, cwd, clock, installer>>

\* A regular file is touched: its ctime becomes the time that then is.
Touch(path) ==
    /\ log # <<>>
    /\ log[Len(log)].op = "from_directory"
    /\ Cardinality({i \in 1..Len(log) : log[i].op = "touch"}) < MaxTouches
    /\ files[path].kind = "file"
    /\ clock' = clock + 1
    /\ files' = [files EXCEPT ![path].ctime = clock + 1]
    /\ log' = Append(log, [op |-> "touch", path |-> path, result |-> Ok(clock + 1),
                           files |-> files'])
    /\ UNCHANGED <<manifest, repository, cwd, installer>>

\* A stored value arrives: one written before commits were recorded, or one
\* that is no CacheInfo.
Receive(wire) ==
    /\ log = <<>>
    /\ log' = Append(log, Call("receive", <<>>, Ok(wire)))
    /\ UNCHANGED <<files, manifest, repository, cwd, clock, installer>>

\* The CacheInfo the last call returned is serialized.
SerializeReturned ==
    /\ log # <<>>
    /\ log[Len(log)].op \in {"from_directory", "from_path", "from_file"}
    /\ log[Len(log)].result.ok
    /\ log' = Append(log, Call("serialize", <<>>, Ok(Serialize(log[Len(log)].result.value))))
    /\ UNCHANGED <<files, manifest, repository, cwd, clock, installer>>

\* The value last written or received is deserialized.
DeserializeStored ==
    /\ log # <<>>
    /\ log[Len(log)].op \in {"serialize", "receive"}
    /\ log' = Append(log, Call("deserialize", <<>>, Deserialize(log[Len(log)].result.value)))
    /\ UNCHANGED <<files, manifest, repository, cwd, clock, installer>>

CacheInit ==
    /\ files \in FileSystems
    /\ manifest \in IF files[PyProject].kind = "file"
                    THEN {Some(text) : text \in Manifests} ELSE {None}
    /\ repository \in {None, Some("c1")}
    /\ cwd \in {<<"dir">>, <<"elsewhere">>}
    /\ clock = 3
    /\ log = <<>>
    /\ distributions = <<>>
    /\ by_name = EmptyMap
    /\ by_url = EmptyMap
    /\ removed = [name |-> "", taken |-> <<>>]
    /\ removed_names = {}
    /\ pc = "unbuilt"
    /\ requirements = <<>>
    /\ constraints = <<>>
    /\ markers = None
    /\ stack = <<>>
    /\ seen = {}
    /\ popped = <<>>
    /\ result = NoResult
    /\ diagnosed = None
    /\ interpreter = None

CacheNext ==
    \/ FromDirectory
    \/ \E path \in {Dir, SetupPy, ExtraLock, Gone} : FromPath(path)
    \/ \E path \in {ExtraLock, Gone} : FromFile(path)
    \/ \E path \in Paths : Touch(path)
    \/ \E wire \in {Scalar(t) : t \in 1..MaxTimestamp} \cup {Garbage} : Receive(wire)
    \/ SerializeReturned
    \/ DeserializeStored

CacheSpec == CacheInit /\ [][CacheNext]_vars


(***************************************************************************)
(* What the claims speak of, stated on the slot array itself.              *)
(***************************************************************************)
\* The live distributions: the slots that hold one.
Live == {distributions[i][1] : i \in {j \in 1..Len(distributions) : distributions[j] # None}}

\* The live distributions a requirement resolves to: by name for a named
\* requirement, by source URL for an unnamed one.
Candidates(requirement) ==
    IF requirement.kind = "Named" THEN {d \in Live : d.name = requirement.name}
    ELSE {d \in Live : d.kind = "Url" /\ d.url = requirement.url}

TheCandidate(requirement) == CHOOSE d \in Candidates(requirement) : TRUE

\* The constraints of the call that are registered under a name.
ConstraintsFor(name) ==
    {constraints[i].requirement : i \in {j \in 1..Len(constraints) :
                                          constraints[j].requirement.name = name}}

\* The marker-active root requirements of the call.
ActiveRoots ==
    {requirements[i] : i \in {j \in 1..Len(requirements) :
        EvaluateMarkers(requirements[j].requirement.marker, markers, {})}}

\* The entries of a sequence, as a set.
Range(seq) == {seq[i] : i \in 1..Len(seq)}

\* C1  Soundness of Fresh: every requirement of a Fresh result resolves to
\* exactly one live distribution, which passes the check against the
\* requirement's source and against every constraint registered under its name.
FreshIsSound ==
    result.kind = "Fresh" =>
        \A r \in result.recursive_requirements :
            /\ Cardinality(Candidates(r.requirement)) = 1
            /\ Check(TheCandidate(r.requirement), r.requirement.source) = "Satisfied"
            /\ \A c \in ConstraintsFor(TheCandidate(r.requirement).name) :
                   Check(TheCandidate(r.requirement), c.source) = "Satisfied"

\* A Fresh result that holds an unnamed requirement, resolved by its URL, and a
\* requirement for a package a constraint is registered under.
FreshIsSoundWitness ==
    /\ result.kind = "Fresh"
    /\ \E r \in result.recursive_requirements : r.requirement.kind = "Unnamed"
    /\ \E r \in result.recursive_requirements :
           /\ r.requirement.kind = "Named"
           /\ ConstraintsFor(r.requirement.name) # {}

\* C2  Exactness of the seen set: a Fresh result is the least set that holds
\* the marker-active roots and, with each member, the requirements synthesized
\* from the dependencies of its candidate that are active under the member's
\* extras.
DependenciesOf(r) ==
    IF Cardinality(Candidates(r.requirement)) # 1 THEN {}
    ELSE LET d == TheCandidate(r.requirement)
         IN  {Specification(RequirementFrom(d.requires_dist[i]), <<>>) :
                 i \in {j \in 1..Len(d.requires_dist) :
                     EvaluateMarkers(d.requires_dist[j].marker, markers,
                                     r.requirement.extras)}}

RECURSIVE LeastClosed(_)
LeastClosed(S) ==
    LET next == S \cup UNION {DependenciesOf(r) : r \in S}
    IN  IF next = S THEN S ELSE LeastClosed(next)

FreshIsTheClosure ==
    result.kind = "Fresh" => result.recursive_requirements = LeastClosed(ActiveRoots)

\* A Fresh result of a call with a root that is dropped for its marker and a
\* root whose extra activates a dependency.
FreshIsTheClosureWitness ==
    /\ result.kind = "Fresh"
    /\ \E r \in Range(requirements) : r \notin ActiveRoots
    /\ \E r \in result.recursive_requirements :
           \E i \in 1..Len(TheCandidate(r.requirement).requires_dist) :
               /\ TheCandidate(r.requirement).requires_dist[i].marker = "extra == 'x'"
               /\ "x" \in r.requirement.extras
    /\ Cardinality(result.recursive_requirements) > Cardinality(ActiveRoots)


\* C3 as stated: whenever a root requirement of the call has no live
\* distribution, satisfies returns Unsatisfied with that requirement's string
\* form.
MissingRootIsNamed ==
    pc = "done" =>
        \A r \in Range(requirements) :
            Candidates(r.requirement) = {} =>
                result = Unsatisfied(to_string(r.requirement))

\* C3 as amended: a marker-active root requirement with no live distribution
\* keeps the result from being Fresh, and when it is the entry the loop pops
\* first, as the only marker-active root is, the result is Unsatisfied with
\* that requirement's string form.
MissingActiveRootIsUnsatisfied ==
    pc = "done" =>
        \A r \in ActiveRoots :
            Candidates(r.requirement) = {} =>
                /\ result.kind # "Fresh"
                /\ ActiveRoots = {r} => popped[1] = r
                /\ popped[1] = r => result = Unsatisfied(to_string(r.requirement))

\* A call with two roots, one dropped for its marker and the other for a
\* package whose only distribution has been removed.
MissingActiveRootWitness ==
    /\ pc = "done"
    /\ Len(requirements) = 2
    /\ \E r \in ActiveRoots :
           /\ ActiveRoots = {r}
           /\ r.requirement.kind = "Named"
           /\ r.requirement.name \in removed_names
           /\ r.requirement.name \in DOMAIN by_name
           /\ Candidates(r.requirement) = {}
           /\ result = Unsatisfied(to_string(r.requirement))

\* C4  Constraints are enforced on top of the requirement: a visited
\* requirement whose single candidate passes the source check but fails the
\* check against a constraint registered under the candidate's name makes
\* satisfies return Unsatisfied, there and then.
FailsCheck(distribution, source) == Check(distribution, source) \in {"Mismatch", "OutOfDate"}

ConstraintsAreEnforced ==
    \A i \in 1..Len(popped) :
        LET e == popped[i].requirement
        IN  (/\ Cardinality(Candidates(e)) = 1
             /\ Check(TheCandidate(e), e.source) = "Satisfied"
             /\ \E c \in ConstraintsFor(TheCandidate(e).name) :
                    FailsCheck(TheCandidate(e), c.source))
            => /\ pc = "done"
               /\ i = Len(popped)
               /\ result = Unsatisfied(to_string(e))

\* A visited requirement whose candidate passes the first of two constraints of
\* its name and fails the second.
ConstraintsAreEnforcedWitness ==
    /\ pc = "done"
    /\ Len(popped) > 1
    /\ Len(constraints) = 2
    /\ LET e == popped[Len(popped)].requirement
       IN  /\ Cardinality(Candidates(e)) = 1
           /\ Check(TheCandidate(e), e.source) = "Satisfied"
           /\ constraints[1].requirement.name = TheCandidate(e).name
           /\ constraints[2].requirement.name = TheCandidate(e).name
           /\ Check(TheCandidate(e), constraints[1].requirement.source) = "Satisfied"
           /\ FailsCheck(TheCandidate(e), constraints[2].requirement.source)
           /\ result = Unsatisfied(to_string(e))

\* C5  Ambiguity is never satisfaction: a visited requirement that resolves to
\* more than one live distribution makes satisfies return Unsatisfied for it.
AmbiguityIsUnsatisfied ==
    \A i \in 1..Len(popped) :
        Cardinality(Candidates(popped[i].requirement)) > 1
        => /\ pc = "done"
           /\ i = Len(popped)
           /\ result = Unsatisfied(to_string(popped[i].requirement))

\* A visited requirement with two candidates, each of which passes the source
\* check and every constraint of its name.
AmbiguityIsUnsatisfiedWitness ==
    /\ pc = "done"
    /\ constraints # <<>>
    /\ \E i \in 1..Len(popped) :
           /\ Cardinality(Candidates(popped[i].requirement)) = 2
           /\ \A d \in Candidates(popped[i].requirement) :
                  /\ Check(d, popped[i].requirement.source) = "Satisfied"
                  /\ \A c \in ConstraintsFor(d.name) : Check(d, c.source) = "Satisfied"

\* C6  Every requirement specification is pushed and checked at most once:
\* no entry is popped twice or waits twice on the stack, the popped and the
\* waiting entries are together the seen set, and over a diamond whose four
\* packages are installed and compatible the result is Fresh with exactly the
\* four requirements, each popped once.
NoDuplicates(seq) == \A i, j \in 1..Len(seq) : i # j => seq[i] # seq[j]

Plain(name) == Specification(Named(name, {}, "", Registry("")), <<>>)

IsDiamond ==
    /\ requirements = <<Plain("a")>>
    /\ \A n \in {"a", "b", "c", "d"} :
           /\ Cardinality(Candidates(Plain(n).requirement)) = 1
           /\ TheCandidate(Plain(n).requirement).readable
           /\ \A c \in ConstraintsFor(n) :
                  Check(TheCandidate(Plain(n).requirement), c.source) = "Satisfied"
    /\ DependenciesOf(Plain("a")) = {Plain("b"), Plain("c")}
    /\ DependenciesOf(Plain("b")) = {Plain("d")}
    /\ DependenciesOf(Plain("c")) = {Plain("d")}
    /\ DependenciesOf(Plain("d")) = {}

VisitedOnce ==
    /\ NoDuplicates(popped)
    /\ NoDuplicates(stack)
    /\ Range(popped) \cap Range(stack) = {}
    /\ Range(popped) \cup Range(stack) = seen
    /\ (pc = "done" /\ IsDiamond) =>
           /\ result = Fresh({Plain("a"), Plain("b"), Plain("c"), Plain("d")})
           /\ Len(popped) = 4

\* The diamond, traversed to the end.
VisitedOnceWitness == pc = "done" /\ IsDiamond /\ Len(constraints) = 2


\* The live distributions of a name, in slot order.
LiveNamed(name) == SelectSeq(iter, LAMBDA d : d.name = name)
\* A sequence of distributions without those of a name.
Without(dists, name) == SelectSeq(dists, LAMBDA d : d.name # name)

\* A step of remove_packages: the only one that leaves satisfies uncalled.
IsRemoval == pc = "idle" /\ pc' = "idle" /\ diagnosed' = diagnosed

\* The requirement has one candidate, whose metadata cannot be read.
UnreadableCandidate(requirement) ==
    /\ Cardinality(Candidates(requirement)) = 1
    /\ ~TheCandidate(requirement).readable

\* The candidate mismatches the source of the requirement or, the source
\* check passed, a constraint of its name.
Mismatches(distribution, requirement) ==
    \/ FailsCheck(distribution, requirement.source)
    \/ /\ Check(distribution, requirement.source) = "Satisfied"
       /\ \E c \in ConstraintsFor(distribution.name) : FailsCheck(distribution, c.source)

\* What diagnostics returned for a package.
DiagnosedOf(package) == diagnosed[1].result.diagnostics[package]

\* C7 as stated: satisfies and diagnostics never return an error for an anomaly
\* of the installed state; when satisfies visits a requirement whose single
\* candidate has unreadable metadata, it returns a verdict, not an error.
AnomaliesAreNeverErrors ==
    /\ diagnosed # None => diagnosed[1].result.kind = "Ok"
    /\ \A i \in 1..Len(popped) :
           (pc = "done" /\ UnreadableCandidate(popped[i].requirement))
           => result.kind \in {"Fresh", "Unsatisfied"}

\* C7 (amended)  diagnostics never returns an error: it returns normally with
\* a duplicate-package diagnostic for every name installed more than once, a
\* metadata-unavailable diagnostic for every single distribution whose
\* metadata cannot be read, and an incompatible-Python diagnostic for every
\* readable one whose required Python excludes the interpreter.  satisfies
\* returns Unsatisfied for a visited requirement with several candidates or with
\* one that mismatches; when the single candidate of a visited requirement has
\* unreadable metadata and passes the source check and every constraint,
\* satisfies returns an error, and it never goes on after such a candidate.
AnomaliesAreData ==
    /\ diagnosed # None =>
           /\ diagnosed[1].result.kind = "Ok"
           /\ \A package \in DOMAIN by_name :
                  LET live == LiveNamed(package)
                  IN  /\ Len(live) >= 2 =>
                             /\ Len(DiagnosedOf(package)) = 1
                             /\ DiagnosedOf(package)[1].kind = "DuplicatePackage"
                             /\ Range(DiagnosedOf(package)[1].paths)
                                    = {live[k].path : k \in 1..Len(live)}
                      /\ (Len(live) = 1 /\ ~live[1].readable) =>
                             DiagnosedOf(package)
                                 = <<MetadataUnavailable(package, live[1].path)>>
                      /\ (/\ Len(live) = 1
                          /\ live[1].readable
                          /\ live[1].requires_python # None
                          /\ ~Contains(live[1].requires_python[1],
                                       diagnosed[1].markers.python_full_version)) =>
                             \E k \in 1..Len(DiagnosedOf(package)) :
                                 DiagnosedOf(package)[k].kind = "IncompatiblePythonVersion"
    /\ \A i \in 1..Len(popped) :
           LET e == popped[i].requirement
           IN  /\ (Cardinality(Candidates(e)) > 1
                   \/ (Cardinality(Candidates(e)) = 1 /\ Mismatches(TheCandidate(e), e)))
                  => /\ pc = "done"
                     /\ i = Len(popped)
                     /\ result = Unsatisfied(to_string(e))
               /\ (UnreadableCandidate(e) /\ ~Mismatches(TheCandidate(e), e))
                  => /\ pc = "done"
                     /\ i = Len(popped)
                     /\ result = Err

\* satisfies visited a requirement whose single candidate passes the checks
\* and has unreadable metadata, and diagnostics then ran over an index with
\* that distribution, a name installed twice and a distribution whose required
\* Python excludes the interpreter.
AnomaliesAreDataWitness ==
    /\ pc = "done"
    /\ diagnosed # None
    /\ popped # <<>>
    /\ UnreadableCandidate(popped[Len(popped)].requirement)
    /\ ~Mismatches(TheCandidate(popped[Len(popped)].requirement),
                    popped[Len(popped)].requirement)
    /\ result = Err
    /\ \E package \in DOMAIN by_name : Len(LiveNamed(package)) = 2
    /\ \E package \in DOMAIN by_name :
           /\ DiagnosedOf(package) # <<>>
           /\ DiagnosedOf(package)[1].kind = "IncompatiblePythonVersion"

\* No reader returns a distribution of a removed name, and satisfies takes a
\* requirement for a removed name as not installed.
RemovedAreGone ==
    \A n \in removed_names :
        /\ get_packages(n) = <<>>
        /\ LiveNamed(n) = <<>>
        /\ \A u \in Urls : \A i \in 1..Len(get_urls(u)) : get_urls(u)[i].name # n
        /\ \A i \in 1..Len(popped) :
               (popped[i].requirement.kind = "Named" /\ popped[i].requirement.name = n)
               => /\ pc = "done"
                  /\ i = Len(popped)
                  /\ result = Unsatisfied(to_string(popped[i].requirement))

\* C8  remove_packages(name) returns exactly the distributions live under the
\* name before the call and tombstones their slots; in every state reached
\* afterwards no reader returns a removed distribution and satisfies takes the
\* name as not installed; the name stays a key of the index and no slot index
\* is compacted or reused.
RemoveTombstones ==
    [][/\ IsRemoval =>
              /\ removed'.taken = LiveNamed(removed'.name)
              /\ removed'.taken = get_packages(removed'.name)
              /\ \A i \in 1..Len(distributions) :
                     distributions'[i] =
                         IF distributions[i] # None
                            /\ distributions[i][1].name = removed'.name
                         THEN None ELSE distributions[i]
              /\ removed'.name \in removed_names'
       /\ RemovedAreGone'
       /\ DOMAIN by_name' = DOMAIN by_name
       /\ by_name' = by_name
       /\ by_url' = by_url
       /\ Len(distributions') = Len(distributions)]_vars

\* Both distributions of a name were removed, one of them installed from a URL
\* that is still a key of the index, and satisfies was then called for the name.
RemoveTombstonesWitness ==
    /\ Len(removed.taken) = 2
    /\ \E i \in 1..2 :
           /\ removed.taken[i].kind = "Url"
           /\ removed.taken[i].url \in DOMAIN by_url
    /\ removed.name \in DOMAIN by_name
    /\ pc = "done"
    /\ Len(popped) = 1
    /\ popped[1].requirement.kind = "Named"
    /\ popped[1].requirement.name = removed.name
    /\ result.kind = "Unsatisfied"

\* C9  Frame of removal: remove_packages(name) leaves get_packages of every
\* other name as it was, takes from get_urls and iter only the distributions of
\* the name, keeping the order of the others, and changes neither the length of
\* the slot array nor the two index maps.
RemovalFrame ==
    [][IsRemoval =>
          /\ \A n \in PackageNames \ {removed'.name} :
                 get_packages(n)' = get_packages(n)
          /\ \A u \in Urls : get_urls(u)' = Without(get_urls(u), removed'.name)
          /\ iter' = Without(iter, removed'.name)
          /\ Len(distributions') = Len(distributions)
          /\ by_name' = by_name
          /\ by_url' = by_url]_vars

\* A removal took a distribution from between two others, which are still
\* live, and from a URL that still yields another distribution.
RemovalFrameWitness ==
    /\ removed.taken # <<>>
    /\ \E i, j, k \in 1..Len(distributions) :
           /\ i < j /\ j < k
           /\ distributions[i] # None
           /\ distributions[j] = None
           /\ distributions[k] # None
    /\ \E u \in DOMAIN by_url :
           /\ get_urls(u) # <<>>
           /\ Len(get_urls(u)) < Len(by_url[u])

\* C10  The read operations never fail: a name or URL that is no key of the
\* index yields an empty result, and every slot index stored in by_name or
\* by_url is within the slot array, so no lookup indexes out of its range.
ReadsNeverFail ==
    /\ \A name \in PackageNames \cup {"zz"} :
           /\ get_packages(name) # Panic
           /\ name \notin DOMAIN by_name => get_packages(name) = <<>>
    /\ \A url \in Urls \cup {"zz"} :
           /\ get_urls(url) # Panic
           /\ url \notin DOMAIN by_url => get_urls(url) = <<>>
    /\ \A name \in DOMAIN by_name : \A i \in 1..Len(by_name[name]) :
           by_name[name][i] \in 0..(Len(distributions) - 1)
    /\ \A url \in DOMAIN by_url : \A i \in 1..Len(by_url[url]) :
           by_url[url][i] \in 0..(Len(distributions) - 1)
    /\ Len(iter) <= Len(distributions)

\* An index of as many distributions as an environment holds, after a removal:
\* a name that is no key, a key all of whose slots are tombstones, and a URL key.
ReadsNeverFailWitness ==
    /\ Len(distributions) = MaxDists
    /\ removed.taken # <<>>
    /\ \E name \in PackageNames : name \notin DOMAIN by_name
    /\ \E name \in DOMAIN by_name : get_packages(name) = <<>>
    /\ \E url \in DOMAIN by_url : Len(get_urls(url)) = 2


\* The diagnostics returned whose package is the name, in the order returned.
DiagnosedFor(name) ==
    SelectSeq(diagnosed[1].result.vec, LAMBDA d : d.package = name)

\* C11  For every name with more than one live distribution, get_packages
\* returns all of them, and diagnostics returns exactly one diagnostic whose
\* package is the name: a DuplicatePackage whose paths are the paths of every
\* live distribution of the name, each once.
DuplicatesAreReportedOnce ==
    \A name \in PackageNames :
        Len(LiveNamed(name)) > 1 =>
            /\ get_packages(name) = LiveNamed(name)
            /\ diagnosed # None =>
                   /\ Len(DiagnosedFor(name)) = 1
                   /\ DiagnosedFor(name)[1].kind = "DuplicatePackage"
                   /\ Len(DiagnosedFor(name)[1].paths) = Len(LiveNamed(name))
                   /\ Range(DiagnosedFor(name)[1].paths)
                          = {LiveNamed(name)[k].path : k \in 1..Len(LiveNamed(name))}

\* diagnostics ran over an index with three live distributions of one name,
\* one of them installed from a URL, and a distribution that depends on the name.
DuplicatesAreReportedOnceWitness ==
    /\ diagnosed # None
    /\ \E name \in PackageNames :
           /\ Len(LiveNamed(name)) = 3
           /\ \E k \in 1..3 : LiveNamed(name)[k].kind = "Url"
           /\ \E i \in 1..Len(iter) : \E j \in 1..Len(iter[i].requires_dist) :
                  /\ iter[i].name # name
                  /\ iter[i].requires_dist[j].name = name


\* The diagnostics returned, as a set.
Diagnosed == Range(diagnosed[1].result.vec)

\* The problems of one distribution, audited under the markers m: unreadable
\* metadata, or else a required Python that excludes the interpreter and every
\* marker-active dependency with no live distribution, or with one whose
\* version its specifier rejects.
ProblemsOf(d, m) ==
    IF ~d.readable THEN {MetadataUnavailable(d.name, d.path)}
    ELSE {IncompatiblePythonVersion(d.name, m.python_full_version, d.requires_python[1]) :
              x \in {y \in {1} : /\ d.requires_python # None
                                 /\ ~Contains(d.requires_python[1],
                                              m.python_full_version)}}
         \cup {MissingDependency(d.name, d.requires_dist[j]) :
                  j \in {k \in 1..Len(d.requires_dist) :
                            /\ EvaluateMarkers(d.requires_dist[k].marker, m, {})
                            /\ LiveNamed(d.requires_dist[k].name) = <<>>}}
         \cup {IncompatibleDependency(d.name,
                                      LiveNamed(d.requires_dist[j].name)[1].version,
                                      d.requires_dist[j]) :
                  j \in {k \in 1..Len(d.requires_dist) :
                            /\ EvaluateMarkers(d.requires_dist[k].marker, m, {})
                            /\ Len(LiveNamed(d.requires_dist[k].name)) = 1
                            /\ d.requires_dist[k].version_or_url[1] = "VersionSpecifier"
                            /\ ~Contains(d.requires_dist[k].version_or_url[2],
                                         LiveNamed(d.requires_dist[k].name)[1].version)}}

\* The duplicate diagnostic of a name installed more than once.
DuplicateOf(name) ==
    DuplicatePackage(name, [k \in 1..Len(LiveNamed(name)) |-> LiveNamed(name)[k].path])

\* C12 as stated: diagnostics returns normally with a diagnostic for every
\* problem present in the index: every duplicated name and every problem of
\* every live distribution.
EveryProblemIsReported ==
    diagnosed # None =>
        /\ diagnosed[1].result.kind = "Ok"
        /\ \A name \in PackageNames :
               Len(LiveNamed(name)) > 1 => DuplicateOf(name) \in Diagnosed
        /\ \A i \in 1..Len(iter) :
               ProblemsOf(iter[i], diagnosed[1].markers) \subseteq Diagnosed

\* C12 (amended)  diagnostics always returns normally and is not fail-fast: the
\* vector holds the duplicate diagnostic of every name installed more than
\* once and every problem of every distribution that is the only live one of
\* its name, whatever was found for other packages or earlier dependencies;
\* and it holds nothing else.  The distributions of a duplicated name are not
\* audited.
AuditIsExhaustive ==
    diagnosed # None =>
        /\ diagnosed[1].result.kind = "Ok"
        /\ Diagnosed =
               {DuplicateOf(name) : name \in {n \in PackageNames : Len(LiveNamed(n)) > 1}}
               \cup UNION {ProblemsOf(iter[i], diagnosed[1].markers) :
                              i \in {k \in 1..Len(iter) :
                                        Len(LiveNamed(iter[k].name)) = 1}}

\* diagnostics returned findings of three kinds, two of them for one package.
AuditIsExhaustiveWitness ==
    /\ diagnosed # None
    /\ Cardinality({d.kind : d \in Diagnosed}) >= 3
    /\ \E name \in PackageNames :
           /\ Len(DiagnosedFor(name)) >= 2
           /\ DiagnosedFor(name)[1].kind = "IncompatiblePythonVersion"

(***************************************************************************)
(* Claims about CacheInfo.                                                 *)
(***************************************************************************)
\* The last call of the log, when it is a call of the given operation: the
\* file system is then as the call saw it.
LastCall(op) == log # <<>> /\ log[Len(log)].op = op

\* The regular files the effective cache keys of the directory name.
WatchedFiles(directory) ==
    {Resolve(CacheKeys(directory)[i].file) : i \in
        {j \in 1..Len(CacheKeys(directory)) :
            /\ CacheKeys(directory)[j].variant \in {"Path", "File"}
            /\ Resolve(CacheKeys(directory)[j].file) \in DOMAIN files
            /\ files[Resolve(CacheKeys(directory)[j].file)].kind = "file"}}

Maximum(S) == CHOOSE x \in S : \A y \in S : y <= x

\* C13: from_directory returns the maximum of the timestamps of the cache-key
\* files that exist and are regular files, and no timestamp exactly when
\* there is none; a directory with no manifest, setup.py or setup.cfg gives
\* an empty CacheInfo, and a CacheInfo is empty iff it has neither a
\* timestamp nor a commit.
TimestampIsTheMaximum ==
    LastCall("from_directory") =>
        LET info == log[Len(log)].result.value
            watched == WatchedFiles(Dir)
        IN  /\ log[Len(log)].result.ok
            /\ (info.timestamp = None) <=> (watched = {})
            /\ watched # {} =>
                   info.timestamp = Some(Maximum({files[file].ctime : file \in watched}))
            /\ (\A file \in {PyProject, SetupPy, SetupCfg} : files[file].kind # "file")
                   => is_empty(info)
            /\ is_empty(info) <=> (info.timestamp = None /\ info.commit = None)

\* A later key that is missing, and one that is older, leave the maximum as
\* it was.
TimestampIsTheMaximumWitness ==
    /\ LastCall("from_directory")
    /\ Len(log) = 3
    /\ CacheKeys(Dir) = DefaultCacheKeys(Dir)
    /\ files[PyProject] = RegularFile(4)
    /\ files[SetupPy] = RegularFile(2)
    /\ files[SetupCfg] = Missing
    /\ log[3].result.value.timestamp = Some(4)

\* Option<Timestamp> as PartialOrd orders it: None is older than any Some.
Older(a, b) == b # None /\ (a = None \/ a[1] < b[1])

FromPathDispatches ==
    /\ LastCall("from_path") =>
           LET path == log[Len(log)].path
               returned == log[Len(log)].result
           IN  CASE Resolve(path) \notin DOMAIN files \/ files[Resolve(path)].kind = "missing" ->
                        ~returned.ok /\ returned = IoError("NotFound")
                 [] files[Resolve(path)].kind = "file" ->
                        /\ returned = from_file(path)
                        /\ returned = Ok(CacheInfo(Some(files[Resolve(path)].ctime), None))
                 [] OTHER -> returned = from_directory(path)
    /\ LastCall("from_file") =>
           LET path == log[Len(log)].path
               returned == log[Len(log)].result
           IN  IF Resolve(path) \in DOMAIN files /\ files[Resolve(path)].kind # "missing"
               THEN returned = Ok(CacheInfo(Some(files[Resolve(path)].ctime), None))
               ELSE returned = IoError("NotFound")

\* A regular file in a directory whose manifest asks for the commit and
\* whose repository has one.
FromPathDispatchesWitness ==
    /\ LastCall("from_path")
    /\ log[1].path = ExtraLock
    /\ files[ExtraLock] = RegularFile(3)
    /\ from_directory(Dir).value.commit = Some("c1")
    /\ from_directory(Dir).value.timestamp = Some(3)
    /\ log[1].result = Ok(CacheInfo(Some(3), None))

\* The manifest as text, when dir/pyproject.toml is a regular file that can
\* be read as text.
ManifestText ==
    IF files[PyProject].kind = "file" /\ manifest # None /\ manifest[1].utf8
    THEN Some(manifest[1].toml) ELSE None

IsTableWith(value, key) == value.type = "table" /\ key \in Keys(value)

\* The array at tool.uv.cache-keys, when the manifest has one.
DeclaredCacheKeys ==
    IF /\ ManifestText # None
       /\ IsTableWith(ManifestText[1], "tool")
       /\ IsTableWith(Get(ManifestText[1], "tool"), "uv")
       /\ IsTableWith(Get(Get(ManifestText[1], "tool"), "uv"), "cache-keys")
       /\ Get(Get(Get(ManifestText[1], "tool"), "uv"), "cache-keys").type = "array"
    THEN Some(Get(Get(Get(ManifestText[1], "tool"), "uv"), "cache-keys").items)
    ELSE None

\* The three shapes of a cache key: "path", { file = "path" }, { git = bool }.
KnownShape(value) ==
    \/ value.type = "string"
    \/ /\ value.type = "table"
       /\ Len(value.items) = 1
       /\ \/ value.items[1].key = "file" /\ value.items[1].value.type = "string"
          \/ value.items[1].key = "git" /\ value.items[1].value.type = "boolean"

KeyOfShape(value) ==
    CASE value.type = "string" -> Path(<<".", value.scalar>>)
      [] value.items[1].key = "file" -> File(<<".", value.items[1].value.scalar>>)
      [] OTHER -> Git(value.items[1].value.scalar = "true")

WellFormed ==
    /\ DeclaredCacheKeys # None
    /\ \A i \in 1..Len(DeclaredCacheKeys[1]) : KnownShape(DeclaredCacheKeys[1][i].value)

\* C16: from_directory never fails, and its cache keys are the three
\* defaults, as a whole, unless the manifest is read, parses and declares a
\* cache-keys array whose entries all have a known shape; then they are
\* that array alone.
DefaultsAsAWhole ==
    /\ from_directory(Dir).ok
    /\ LastCall("from_directory") => log[Len(log)].result.ok
    /\ IF WellFormed
       THEN CacheKeys(Dir) = [i \in 1..Len(DeclaredCacheKeys[1]) |->
                                 KeyOfShape(DeclaredCacheKeys[1][i].value)]
       ELSE CacheKeys(Dir) = <<Path(PyProject), Path(SetupPy), Path(SetupCfg)>>

\* One entry of an unknown shape beside an entry naming a newer file: the
\* timestamp is that of the defaults.
DefaultsAsAWholeWitness ==
    /\ LastCall("from_directory")
    /\ Len(log) = 1
    /\ DeclaredCacheKeys # None
    /\ Len(DeclaredCacheKeys[1]) = 2
    /\ \E i \in 1..2 : /\ DeclaredCacheKeys[1][i].value = String("extra.lock")
                       /\ ~KnownShape(DeclaredCacheKeys[1][3 - i].value)
    /\ cwd = Dir
    /\ files[ExtraLock] = RegularFile(3)
    /\ files[SetupPy] = RegularFile(2)
    /\ log[1].result = Ok(CacheInfo(Some(2), None))

\* A well-formed list naming none of the defaults: the defaults are not read.
CustomListAloneWitness ==
    /\ LastCall("from_directory")
    /\ Len(log) = 1
    /\ WellFormed
    /\ CacheKeys(Dir) = <<>>
    /\ files[SetupPy] = RegularFile(2)
    /\ log[1].result = Ok(CacheInfo(None, None))

BareTimestampWitness ==
    /\ Len(log) = 2
    /\ log[1].op = "receive"
    /\ log[1].result.value = Scalar(2)
    /\ log[2].result = Ok(CacheInfo(Some(2), None))

(***************************************************************************)
(* Claims about the order of the index.                                    *)
(***************************************************************************)
\* The place of a path: its directory's place in the search path, then its
\* file name.
ComesBefore(p, q) ==
    LET place(dir) == CHOOSE k \in 1..Len(SysPath) : SysPath[k] = dir
    IN  \/ place(p[1]) < place(q[1])
        \/ p[1] = q[1] /\ p[2] < q[2]

\* The distributions an interpreter's entries hold.
Recognized(entries) ==
    {entries[i].probe[2][1] : i \in
        {j \in 1..Len(entries) : /\ IsDistLike(entries[j])
                                 /\ entries[j].probe[1] = "Ok"
                                 /\ entries[j].probe[2] # None}}

SlotsInPathOrder(slots, entries) ==
    /\ \A i \in 1..Len(slots) : slots[i] # None
    /\ {slots[i][1] : i \in 1..Len(slots)} = Recognized(entries)
    /\ \A i, j \in 1..Len(slots) : i < j => ComesBefore(slots[i][1].path, slots[j][1].path)

\* C18: a scan fills the slots in search-path order and, within a directory,
\* in the order of the paths, however the directory was listed; and a scan
\* of the same entries listed in another order leaves the slots, both maps,
\* iter, every get_packages and get_urls, and the sequence of diagnostics as
\* they were.
ListingOrderNeverLeaks ==
    [][/\ (pc = "unbuilt" /\ pc' = "idle") =>
              SlotsInPathOrder(distributions', interpreter[1].entries)
       /\ interpreter' # interpreter =>
              /\ SlotsInPathOrder(distributions', interpreter'[1].entries)
              /\ distributions' = distributions
              /\ by_name' = by_name
              /\ by_url' = by_url
              /\ iter' = iter
              /\ \A name \in PackageNames : get_packages(name)' = get_packages(name)
              /\ \A url \in Urls : get_urls(url)' = get_urls(url)
              /\ \A m \in MarkerEnvs : diagnostics(m).vec' = diagnostics(m).vec]_vars

\* An index built from a directory listed in descending order of its paths,
\* with two distributions of one name and diagnostics for two packages.
ListingOrderNeverLeaksWitness ==
    /\ pc = "idle"
    /\ removed_names = {}
    /\ \E i, j \in 1..Len(interpreter[1].entries) :
           /\ i < j
           /\ interpreter[1].entries[i].probe[2] # None
           /\ interpreter[1].entries[j].probe[2] # None
           /\ interpreter[1].entries[i].path[1] = interpreter[1].entries[j].path[1]
           /\ interpreter[1].entries[i].path[2] > interpreter[1].entries[j].path[2]
           /\ interpreter[1].entries[1].path[1] = 2
    /\ \E name \in PackageNames : Len(get_packages(name)) = 2
    /\ \E m \in MarkerEnvs :
           Cardinality({diagnostics(m).vec[k].package :
                            k \in 1..Len(diagnostics(m).vec)}) >= 2

\* C19: any() is true iff iter() yields a distribution; over an environment
\* without a recognized distribution, and after every installed name has
\* been removed, any() is false and iter() is empty.
AnyAgreesWithIter ==
    /\ any <=> iter # <<>>
    /\ (pc = "idle" /\ Recognized(interpreter[1].entries) = {}) =>
           ~any /\ iter = <<>>
    /\ (pc = "idle" /\ DOMAIN by_name \subseteq removed_names) =>
           ~any /\ iter = <<>>

\* Two distributions of one name were installed and the name was removed.
AnyAgreesWithIterWitness ==
    /\ pc = "idle"
    /\ Len(distributions) = 2
    /\ removed_names = DOMAIN by_name
    /\ removed.taken # <<>>
    /\ ~any
    /\ iter = <<>>

\* An index was built over an environment with entries but no distribution.
EmptyEnvironmentWitness ==
    /\ pc = "idle"
    /\ interpreter[1].entries # <<>>
    /\ distributions = <<>>
    /\ ~any

(***************************************************************************)
(* Claims about the termination of satisfies.                              *)
(***************************************************************************)
\* The specifications reachable from the roots of the call.
Reachable == LeastClosed(ActiveRoots)

PopsAreBounded ==
    pc \in {"loop", "done"} =>
        /\ seen \subseteq Reachable
        /\ Len(popped) <= Cardinality(Reachable)

\* A pass of the loop pops one entry and goes on, or returns a result.
LoopPass ==
    pc = "loop" => \/ (pc' = "done" /\ result'.kind # "None")
                   \/ (pc' = "loop" /\ Len(popped') = Len(popped) + 1)

\* C20: a call of satisfies returns, also over distributions that depend on
\* each other or on themselves: while the call has not returned a pass of
\* the loop or the return can be taken, every pass pops one entry, and no
\* more entries are popped than there are specifications reachable from the
\* roots.
SatisfiesTerminates ==
    /\ []PopsAreBounded
    /\ [](pc = "loop" => ENABLED (SatisfiesLoop \/ SatisfiesFresh))
    /\ [][LoopPass]_vars

\* Under the fairness of the loop, every call returns.
LoopReturns == (pc = "loop") ~> (pc = "done")

\* A call returned Fresh over a cycle of two packages, one of which also
\* depends on itself.
SatisfiesTerminatesWitness ==
    /\ pc = "done"
    /\ result.kind = "Fresh"
    /\ \E r, q \in seen :
           /\ r # q
           /\ q \in DependenciesOf(r)
           /\ r \in DependenciesOf(q)
           /\ q \in DependenciesOf(q)
    /\ Len(popped) = Cardinality(Reachable)

(***************************************************************************)
(* Claims about the audit of dependencies.                                 *)
(***************************************************************************)
\* The live distributions diagnostics audits: the only live one of their
\* name, with readable metadata.
Audited ==
    {iter[i] : i \in {j \in 1..Len(iter) :
                         Len(LiveNamed(iter[j].name)) = 1 /\ iter[j].readable}}

\* What diagnostics returned about one declared dependency of a package.
FoundFor(package, dependency) ==
    {x \in Diagnosed : /\ x.kind \in {"MissingDependency", "IncompatibleDependency"}
                       /\ x.package = package
                       /\ x.requirement = dependency}

\* C21: for an audited package and each of its declared dependencies, under
\* the markers of the call: nothing is reported when the marker is false;
\* MissingDependency, and only it, iff the name has no live distribution;
\* nothing when it has several; and with exactly one, IncompatibleDependency,
\* and only it, iff the dependency has a version specifier that rejects the
\* installed version: none for a dependency without a version or with a URL.
DependenciesAreClassified ==
    diagnosed # None =>
        \A d \in Audited : \A j \in 1..Len(d.requires_dist) :
            LET dependency == d.requires_dist[j]
                live == LiveNamed(dependency.name)
                found == FoundFor(d.name, dependency)
            IN  IF ~EvaluateMarkers(dependency.marker, diagnosed[1].markers, {})
                THEN found = {}
                ELSE CASE Len(live) = 0 ->
                              found = {MissingDependency(d.name, dependency)}
                       [] Len(live) > 1 -> found = {}
                       [] /\ dependency.version_or_url[1] = "VersionSpecifier"
                          /\ ~Contains(dependency.version_or_url[2], live[1].version) ->
                              found = {IncompatibleDependency(d.name, live[1].version,
                                                              dependency)}
                       [] OTHER -> found = {}

\* One audit met a dependency with a URL whose package is installed, a
\* dependency whose marker is false and whose package is not installed, and
\* a dependency that is missing.
DependenciesAreClassifiedWitness ==
    /\ diagnosed # None
    /\ DistB3 \in Audited
    /\ Len(LiveNamed("d")) = 1
    /\ LiveNamed("c") = <<>>
    /\ diagnosed[1].markers.python_full_version = 8
    /\ FoundFor("b", DistB3.requires_dist[1]) = {}
    /\ FoundFor("b", DistB3.requires_dist[2]) = {}
    /\ \E x \in Diagnosed : x.kind = "MissingDependency" /\ x.requirement.name = "c"

\* One audit met a specifier that the installed version satisfies, under
\* the markers that make the dependency active.
SpecifierSatisfiedWitness ==
    /\ diagnosed # None
    /\ DistB3 \in Audited
    /\ LiveNamed("c") = <<DistCU>>
    /\ diagnosed[1].markers.python_full_version = 9
    /\ FoundFor("b", DistB3.requires_dist[2]) = {}

\* One audit met a specifier that the installed version fails.
SpecifierFailedWitness ==
    /\ diagnosed # None
    /\ DistBU \in Audited
    /\ LiveNamed("d") = <<DistD2>>
    /\ FoundFor("b", DistBU.requires_dist[3]) =
           {IncompatibleDependency("b", 2, DistBU.requires_dist[3])}

(***************************************************************************)
(* Claims about the Git cache keys.                                        *)
(***************************************************************************)
\* What from_directory has accumulated after the first k cache keys.
Accumulated(k) == Incorporate(CacheInfo(None, None), SubSeq(CacheKeys(Dir), 1, k), Dir)

\* C22: in from_directory a { git = false } key leaves the timestamp and the
\* commit accumulated so far as they are, wherever it stands; a
\* { git = true } key leaves the timestamp as it is and, when the lookup of
\* the commit fails, the commit too, and the call does not fail; the commit
\* returned is present only when a { git = true } key is in the list and the
\* lookup succeeds, so never with the default keys.
GitKeysFrame ==
    LastCall("from_directory") =>
        LET keys == CacheKeys(Dir)
            info == log[Len(log)].result.value
        IN  /\ log[Len(log)].result.ok
            /\ info = Accumulated(Len(keys))
            /\ \A k \in 1..Len(keys) :
                   keys[k].variant = "Git" =>
                       /\ Accumulated(k).timestamp = Accumulated(k - 1).timestamp
                       /\ ~keys[k].git => Accumulated(k) = Accumulated(k - 1)
                       /\ (keys[k].git /\ repository = None) =>
                              Accumulated(k) = Accumulated(k - 1)
            /\ info.commit # None =>
                   /\ \E k \in 1..Len(keys) : keys[k] = Git(TRUE)
                   /\ repository # None
                   /\ info.commit = repository
            /\ keys = DefaultCacheKeys(Dir) => info.commit = None

\* The commit was found, then a file was stamped, then { git = false } came.
GitKeysFrameWitness ==
    /\ LastCall("from_directory")
    /\ Len(log) = 1
    /\ CacheKeys(Dir) = <<Git(TRUE), Path(PathBuf("setup.py")), Git(FALSE)>>
    /\ cwd = Dir
    /\ files[SetupPy] = RegularFile(2)
    /\ log[1].result = Ok(CacheInfo(Some(2), Some("c1")))

\* The lookup of the commit failed after a file was stamped.
GitLookupFailedWitness ==
    /\ LastCall("from_directory")
    /\ Len(log) = 1
    /\ CacheKeys(Dir) = <<File(PathBuf("extra.lock")), Git(TRUE)>>
    /\ cwd = Dir
    /\ repository = None
    /\ log[1].result = Ok(CacheInfo(Some(3), None))

(***************************************************************************)
(* Claims about the outcome of the scan.                                   *)
(***************************************************************************)
\* The entries of the interpreter, as a set.
Entries == Range(interpreter[1].entries)

\* What makes a scan fail: a search-path directory that cannot be listed for
\* another reason than its absence, an entry the listing fails on, or a
\* candidate whose probe fails and whose name does not start with '~'.
ScanMustFail ==
    \/ \E k \in 1..Len(interpreter[1].sys_path) : interpreter[1].sys_path[k] = 4
    \/ \E e \in Entries : ~e.listed
    \/ \E e \in Entries : IsDistLike(e) /\ e.probe[1] = "Err" /\ ~e.tilde

\* The slots a distribution occupies.
SlotsOf(d) == {i \in 1..Len(distributions) : distributions[i] = Some(d)}

\* C23: a scan fails exactly when a search-path directory cannot be listed
\* for another reason than its absence, or a candidate's probe fails and its
\* name does not start with '~', and then no index is returned; a missing
\* directory, a candidate that is no distribution and a failing '~'
\* candidate are passed over.  After a scan that succeeds every recognized
\* distribution has exactly one slot, which by_name lists under its name, and
\* which by_url lists under its URL iff it was installed from a URL.
ScanOutcome ==
    /\ pc = "failed" => /\ ScanMustFail
                        /\ distributions = <<>>
                        /\ by_name = EmptyMap
                        /\ by_url = EmptyMap
    /\ pc = "idle" => ~ScanMustFail
    /\ (pc = "idle" /\ removed_names = {}) =>
           /\ \A i \in 1..Len(distributions) :
                  distributions[i] # None /\ distributions[i][1] \in Recognized(interpreter[1].entries)
           /\ \A d \in Recognized(interpreter[1].entries) :
                  /\ Cardinality(SlotsOf(d)) = 1
                  /\ \A i \in SlotsOf(d) :
                         /\ i - 1 \in Range(by_name[d.name])
                         /\ \A name \in DOMAIN by_name \ {d.name} :
                                i - 1 \notin Range(by_name[name])
                         /\ d.kind = "Url" <=>
                                (d.url \in DOMAIN by_url /\ i - 1 \in Range(by_url[d.url]))
                         /\ \A url \in DOMAIN by_url :
                                i - 1 \in Range(by_url[url]) => d.kind = "Url" /\ d.url = url

\* A scan succeeded over a search path with a missing directory, a candidate
\* that is no distribution, a failing '~' candidate, a distribution from a
\* URL and one from a registry.
ScanOutcomeWitness ==
    /\ pc = "idle"
    /\ removed_names = {}
    /\ {EntryPlainDir, EntryDangling} \subseteq Entries
    /\ Len(distributions) = 2
    /\ \E i, j \in 1..2 : /\ distributions[i][1].kind = "Url"
                          /\ distributions[j][1].kind = "Registry"
    /\ DOMAIN by_url = {"u1"}

\* A scan failed on a candidate that came after a recognized distribution.
ScanFailedWitness ==
    /\ pc = "failed"
    /\ interpreter[1].sys_path = SysPath
    /\ EntryBroken \in Entries
    /\ DistEntry(DistA1) \in Entries
    /\ \A e \in Entries : e.listed

\* A scan failed on a directory that could not be listed.
ScanDeniedWitness ==
    /\ pc = "failed"
    /\ interpreter[1].sys_path = SysPathDenied
    /\ \A e \in Entries : e.listed /\ (e.probe[1] = "Err" => e.tilde \/ ~IsDistLike(e))
    /\ DistEntry(DistA1) \in Entries

(***************************************************************************)
(* Claims about the order of the traversal.                                *)
(***************************************************************************)
\* The orders of the places 1..n.
Orders(n) == Permutations(1..n)

\* A sequence in another order of its places.
Permuted(seq, order) == [i \in 1..Len(seq) |-> seq[order[i]]]

\* The longest list of declared dependencies.
MaxDeclared == 3

\* Declared dependencies in another order: by the rank that order gives to
\* their places.
Reordered(requires_dist, order) ==
    LET n == Len(requires_dist)
        rank(i) == Cardinality({j \in 1..n : order[j] < order[i]}) + 1
    IN  [k \in 1..n |-> requires_dist[CHOOSE i \in 1..n : rank(i) = k]]

\* The while loop of satisfies (lines 311-376) run to its end from a stack and
\* a seen set, over metadata that declares its dependencies in the given order.
RECURSIVE Traverse(_, _, _, _, _)
Traverse(stk, sn, cons, m, order) ==
    IF stk = <<>> THEN Fresh(sn)
    ELSE LET entry == stk[Len(stk)]
             rest == SubSeq(stk, 1, Len(stk) - 1)
             installed == Installed(entry.requirement)
             description == to_string(entry.requirement)
         IN  IF Len(installed) # 1 THEN Unsatisfied(description)
             ELSE LET distribution == installed[1]
                      source == CheckSource(distribution, entry)
                      constraint ==
                          CheckConstraints(
                              distribution,
                              ConstraintsOf(CollectConstraints(EmptyMap, cons),
                                            distribution.name))
                      metadata == ReadMetadata(distribution)
                  IN  CASE source = "Err" -> Err
                        [] source # "Satisfied" -> Unsatisfied(description)
                        [] constraint = "Err" -> Err
                        [] constraint # "Satisfied" -> Unsatisfied(description)
                        [] metadata = None -> Err
                        [] OTHER ->
                            LET next == AddDependencies(
                                            [stack |-> rest, seen |-> sn],
                                            Reordered(metadata[1], order), m,
                                            entry.requirement.extras)
                            IN  Traverse(next.stack, next.seen, cons, m, order)

\* satisfies(requirements, constraints, markers) as a whole (lines 280-377).
satisfies(reqs, cons, m, order) ==
    LET direct == AddDirect([stack |-> <<>>, seen |-> {}], reqs, m)
    IN  Traverse(direct.stack, direct.seen, cons, m, order)

\* The declared order of the dependencies.
Declared == [i \in 1..MaxDeclared |-> i]

\* What the call that has returned returns for its roots and for the declared
\* dependencies in other orders.
Reorderings ==
    {satisfies(Permuted(requirements, roots), constraints, markers, order) :
        roots \in Orders(Len(requirements)), order \in Orders(MaxDeclared)}

\* C24 as stated: whatever the order of the roots and of the declared
\* dependencies, a call that returns Fresh or Unsatisfied returns the same
\* variant, and the same set when it is Fresh.
VerdictIgnoresOrder ==
    (pc = "done" /\ result.kind \in {"Fresh", "Unsatisfied"}) =>
        \A r \in Reorderings :
            /\ r.kind = result.kind
            /\ r.kind = "Fresh" => r = result

\* C24 as the code has it: whatever the order of the roots and of the
\* declared dependencies, a call returns Fresh in every order or in none, with
\* the same set; a call that does not return Fresh returns Unsatisfied or an
\* error, and which of the two may depend on the order as the named
\* requirement does.
FreshIgnoresOrder ==
    pc = "done" =>
        /\ satisfies(requirements, constraints, markers, Declared) = result
        /\ \A r \in Reorderings :
               /\ r.kind = "Fresh" <=> result.kind = "Fresh"
               /\ r.kind = "Fresh" => r = result
               /\ r.kind \in {"Fresh", "Unsatisfied", "Err"}

\* A Fresh call with two different roots in play, one of which brought in a
\* distribution that declares several dependencies in play.
FreshIgnoresOrderWitness ==
    /\ pc = "done"
    /\ result.kind = "Fresh"
    /\ Cardinality(ActiveRoots) = 2
    /\ \E r \in result.recursive_requirements : Cardinality(DependenciesOf(r)) >= 2
    /\ \A r \in Reorderings : r = result

\* A call that returned Unsatisfied and returns an error for its roots in the
\* other order.
ErrorInAnotherOrderWitness ==
    /\ pc = "done"
    /\ result.kind = "Unsatisfied"
    /\ \E r \in Reorderings : r.kind = "Err"

\* A call that returned Unsatisfied and names another requirement in another
\* order.
NamedInAnotherOrderWitness ==
    /\ pc = "done"
    /\ result.kind = "Unsatisfied"
    /\ \E r \in Reorderings : r.kind = "Unsatisfied" /\ r.description # result.description

(***************************************************************************)
(* Claims about the working directory of the process.                      *)
(***************************************************************************)
\* The working directories a process may have.
WorkingDirectories == {<<"dir">>, <<"elsewhere">>}

\* A path as a process with the given working directory resolves it.
ResolveFrom(path, wd) == IF path[1] = "." THEN wd \o Tail(path) ELSE path

\* The regular files the effective cache keys of the directory name for a
\* process with the given working directory.
WatchedFrom(directory, wd) ==
    {ResolveFrom(CacheKeys(directory)[i].file, wd) : i \in
        {j \in 1..Len(CacheKeys(directory)) :
            /\ CacheKeys(directory)[j].variant \in {"Path", "File"}
            /\ ResolveFrom(CacheKeys(directory)[j].file, wd) \in DOMAIN files
            /\ files[ResolveFrom(CacheKeys(directory)[j].file, wd)].kind = "file"}}

\* The timestamp from_directory returns to a process with the given working
\* directory (lines 74-85).
TimestampFrom(directory, wd) ==
    IF WatchedFrom(directory, wd) = {} THEN None
    ELSE Some(Maximum({files[file].ctime : file \in WatchedFrom(directory, wd)}))

\* C25 as stated: from_directory(dir) returns what it returns to a process
\* with any other working directory, and with relative cache keys what the
\* files of those names inside dir give.
DirectoryAloneDecides ==
    LastCall("from_directory") =>
        \A wd \in WorkingDirectories :
            log[Len(log)].result.value.timestamp = TimestampFrom(Dir, wd)

\* C25 as the code has it: the timestamp is that of the cache keys as the
\* process resolves them, a relative key against its working directory; with
\* the default keys, which are joined to dir, the working directory has no
\* part in it, and it never has in the commit.
WorkingDirectoryDecides ==
    LastCall("from_directory") =>
        LET info == log[Len(log)].result.value
        IN  /\ info.timestamp = TimestampFrom(Dir, cwd)
            /\ ReadCacheKeys(Dir) = None =>
                   \A wd \in WorkingDirectories : info.timestamp = TimestampFrom(Dir, wd)
            /\ info.commit # None => info.commit = repository

\* A call made from another directory with a relative cache key: the file of
\* that name in dir is the newest of dir, and is not what the call returns.
RelativeKeyLeavesDirWitness ==
    /\ LastCall("from_directory")
    /\ cwd = <<"elsewhere">>
    /\ ReadCacheKeys(Dir) # None
    /\ files[ExtraLock] = RegularFile(3)
    /\ files[ElsewhereLock] = RegularFile(1)
    /\ TimestampFrom(Dir, Dir) = Some(3)
    /\ log[Len(log)].result.value.timestamp = Some(1)

\* A call made from another directory with the default keys, which returns
\* what the files of dir give.
DefaultKeysStayInDirWitness ==
    /\ LastCall("from_directory")
    /\ cwd = <<"elsewhere">>
    /\ ReadCacheKeys(Dir) = None
    /\ files[ElsewhereLock] = RegularFile(1)
    /\ log[Len(log)].result.value.timestamp = Some(2)
    /\ TimestampFrom(Dir, Dir) = Some(2)

=============================================================================
